---- MODULE Spec2Model ----
(***************************************************************************)
(* Hybrid retrieval engine of CanvAI (Backend/vector_db/vector.py): the    *)
(* process-wide caches, the Index Store on disk, the Index Builder         *)
(* (vectorize) and the Hybrid Retriever (perform_search); the Query        *)
(* Planner and the Answer Synthesizer (llm.py); the /search endpoint, the  *)
(* key watcher and the scraping pipeline task (fast_api.py) and the chat   *)
(* assistant endpoint (chat_router.py).                                    *)
(*                                                                         *)
(* Text is a sequence of one-character strings, so that strip(), lower(),  *)
(* substring tests, regular-expression word boundaries and the f-string    *)
(* cache keys are computed as Python computes them.                        *)
(* Vectors are integer pairs of Euclidean norm UnitNorm (a unit vector     *)
(* scaled by UnitNorm); scores are integers in units of 1/ScoreScale.      *)
(***************************************************************************)
EXTENDS Integers, Sequences, FiniteSets, TLC

VARIABLES
    EMBEDDINGS_CACHE,   \* "None" or "model": the cached embedding model
    DB_CACHE,           \* loaded Index Stores, keyed by out_dir_name/db_name
    QUERY_CACHE,        \* normalized query -> query embedding
    RESULT_CACHE,       \* f-string key -> result list
    disk,               \* persisted Index Stores, keyed by <<out_dir_name, db_name>>
    call,               \* the last operation: its arguments, what it did, what it returned
    ncalls,             \* number of operations run so far
    user_settings,      \* data/user_db/user_settings.csv: whether it exists, and its first row
    chat_db,            \* data/chat_db: the session ids and the rows of chat_messages.csv
    API_KEYS_READY,     \* the event of fast_api.py: set or not
    API_KEY_WATCH_TASK, \* the watcher task: "None", "running", "sleeping" or "done"
    llm_requests,       \* the requests posted to the LLM capability, in order
    response,           \* what the last call of the planner, the synthesizer or an endpoint gave
    SCRAPING_TASK,      \* the pipeline task: "None", "created", "running" or "done"
    SCRAPING_COMPLETED, \* whether a run of the scraping pipeline has succeeded
    server,             \* the lifespan of the app, and the pipeline tasks alive and started
    inflight            \* per caller, the search it is in the middle of

\* the state of the web layer and of the LLM glue
serving_vars == <<user_settings, chat_db, API_KEYS_READY, API_KEY_WATCH_TASK, llm_requests, response>>
\* the scraping pipeline, the lifespan and the searches in progress
background_vars == <<SCRAPING_TASK, SCRAPING_COMPLETED, server, inflight>>
web_vars == <<serving_vars, background_vars>>

vars == <<EMBEDDINGS_CACHE, DB_CACHE, QUERY_CACHE, RESULT_CACHE, disk, call, ncalls, user_settings, chat_db, API_KEYS_READY, API_KEY_WATCH_TASK, llm_requests, response, SCRAPING_TASK, SCRAPING_COMPLETED, server, inflight>>

(***************************************************************************)
(* The web layer before any request: user_store._default_row (lines        *)
(* 28-37), an empty chat store, the event and the watcher of fast_api.py   *)
(* (lines 52-53), and no request posted.                                   *)
(***************************************************************************)
UserRow(canvas_key, gemini_key, canvas_base_url, elevenlabs_api_key, openrouter_api_key) ==
    [canvas_key |-> canvas_key, gemini_key |-> gemini_key, canvas_base_url |-> canvas_base_url,
     elevenlabs_api_key |-> elevenlabs_api_key, openrouter_api_key |-> openrouter_api_key]
DefaultRow == UserRow(<<>>, <<>>, <<>>, <<>>, <<>>)
SettingsFile(row) == [exists |-> TRUE, row |-> row]
NoSettingsFile == [exists |-> FALSE, row |-> DefaultRow]
NoChats == [sessions |-> {}, messages |-> <<>>]
\* Python's None, as a parsed value
NoneValue == [kind |-> "null", text |-> <<>>, items |-> <<>>]
\* what a call gave: the exception it raised, or the Plan, the text and the
\* error field it returned; called lists the components it called
NoResponse ==
    [op |-> "none", query |-> <<>>, raised |-> FALSE, exception |-> "", plan |-> NoneValue,
     given |-> FALSE, text |-> <<>>, error |-> <<>>, called |-> <<>>]

\* the callers that may be inside perform_search at once
Callers == {"a", "b"}
\* a caller that is not inside perform_search
Idle == [pc |-> "idle"]

\* fast_api.py 54-55, the app not started, and no search in progress
NotStarted == [lifespan |-> "created", pipeline_tasks |-> 0, pipeline_started |-> FALSE]
InitBackground ==
    /\ SCRAPING_TASK = "None"
    /\ SCRAPING_COMPLETED = FALSE
    /\ server = NotStarted
    /\ inflight = [caller \in Callers |-> Idle]

InitWeb ==
    /\ user_settings = SettingsFile(DefaultRow)
    /\ chat_db = NoChats
    /\ API_KEYS_READY = FALSE
    /\ API_KEY_WATCH_TASK = "None"
    /\ llm_requests = <<>>
    /\ response = NoResponse
    /\ InitBackground

(***************************************************************************)
(* Characters and Python's str methods.                                    *)
(***************************************************************************)
LowerLetters == <<"a","b","c","d","e","f","g","h","i","j","k","l","m","n","o","p","q","r","s","t","u","v","w","x","y","z">>
UpperLetters == <<"A","B","C","D","E","F","G","H","I","J","K","L","M","N","O","P","Q","R","S","T","U","V","W","X","Y","Z">>
DigitChars == <<"0","1","2","3","4","5","6","7","8","9">>

Range(s) == {s[i] : i \in 1..Len(s)}

LowerChars == Range(LowerLetters)
UpperChars == Range(UpperLetters)
AlphaChars == LowerChars \cup UpperChars
DigitSet == Range(DigitChars)
\* \s of re, and the characters str.strip() removes
SpaceChars == {" ", "\t", "\n", "\r"}
\* \w of re
WordChars == AlphaChars \cup DigitSet \cup {"_"}

IsSpace(c) == c \in SpaceChars
IsWord(c) == c \in WordChars

ToLower == [c \in UpperChars |-> LowerLetters[CHOOSE i \in 1..26 : UpperLetters[i] = c]]
ToUpper == [c \in LowerChars |-> UpperLetters[CHOOSE i \in 1..26 : LowerLetters[i] = c]]

LowerCh(c) == IF c \in UpperChars THEN ToLower[c] ELSE c
UpperCh(c) == IF c \in LowerChars THEN ToUpper[c] ELSE c

\* str.lower()
Lower(s) == [i \in 1..Len(s) |-> LowerCh(s[i])]
\* str.upper()
Upper(s) == [i \in 1..Len(s) |-> UpperCh(s[i])]
\* str.capitalize(): first character upper-cased, the rest lower-cased
\* every letter made upper-case, which C12 must tell apart from Capitalize
CapitalizeEveryLetter(s) == Upper(s)

Capitalize(s) == [i \in 1..Len(s) |-> IF i = 1 THEN UpperCh(s[i]) ELSE LowerCh(s[i])]

\* str.strip(): leading and trailing whitespace removed
Strip(s) ==
    LET nonsp == {i \in 1..Len(s) : ~IsSpace(s[i])}
    IN  IF nonsp = {} THEN <<>>
        ELSE SubSeq(s, CHOOSE i \in nonsp : \A j \in nonsp : i <= j,
                       CHOOSE i \in nonsp : \A j \in nonsp : j <= i)

\* a in b, for strings
Contains(text, pat) ==
    \E i \in 0..(Len(text) - Len(pat)) : SubSeq(text, i + 1, i + Len(pat)) = pat

\* str(n) for an integer n >= 0
RECURSIVE DecStr(_)
DecStr(n) == IF n < 10 THEN <<DigitChars[n + 1]>>
             ELSE DecStr(n \div 10) \o <<DigitChars[(n % 10) + 1]>>

\* flatten a sequence of sequences
RECURSIVE Flatten(_)
Flatten(ss) == IF ss = <<>> THEN <<>> ELSE Head(ss) \o Flatten(Tail(ss))

(***************************************************************************)
(* Regular expressions of vector.py.                                       *)
(***************************************************************************)
\* \b between text[i] and text[i+1] (i in 0..Len(text))
WordBoundary(text, i) ==
    LET before == i >= 1 /\ IsWord(text[i])
        after == i < Len(text) /\ IsWord(text[i + 1])
    IN  before # after

\* length of the run of characters of the set cs that starts at text[i]
RECURSIVE RunLen(_, _, _)
RunLen(text, i, cs) ==
    IF i <= Len(text) /\ text[i] \in cs THEN 1 + RunLen(text, i + 1, cs) ELSE 0

\* position after \s*[\-]?\s* (or \s*#?\s*) matched from text[i]
SkipSeparator(text, i, sep) ==
    LET a == i + RunLen(text, i, SpaceChars)
        b == IF a <= Len(text) /\ text[a] = sep THEN a + 1 ELSE a
    IN  b + RunLen(text, b, SpaceChars)

\* one match of a pattern: text[from..to]; NoMatch when there is none
NoMatch == [from |-> 0, to |-> 0]

\* re.finditer: the leftmost non-overlapping matches; at[i] is the match
\* that starts at position i, or NoMatch
RECURSIVE FindIter(_, _)
FindIter(at, i) ==
    IF i > Len(at) THEN <<>>
    ELSE IF at[i].to = 0 THEN FindIter(at, i + 1)
         ELSE <<at[i]>> \o FindIter(at, at[i].to + 1)

(***************************************************************************)
(* extract_identifiers (vector.py 291-328).                                *)
(***************************************************************************)
\* course_code_pattern = r'\b([A-Z]{4,6})\s*[\-]?\s*(\d{3})\b', re.IGNORECASE
CourseMatchAt(text, i) ==
    LET n == RunLen(text, i, AlphaChars)
        p == SkipSeparator(text, i + n, "-")
    IN  IF /\ WordBoundary(text, i - 1)
           /\ n >= 4 /\ n <= 6
           /\ RunLen(text, p, DigitSet) >= 3
           /\ WordBoundary(text, p + 2)
        THEN [from |-> i, to |-> p + 2,
              dept |-> SubSeq(text, i, i + n - 1), num |-> SubSeq(text, p, p + 2)]
        ELSE NoMatch

AssignmentKeywords ==
    << <<"a","s","s","i","g","n","m","e","n","t">>, <<"h","o","m","e","w","o","r","k">>,
       <<"h","w">>, <<"q","u","i","z">>, <<"e","x","a","m">>, <<"t","e","s","t">>,
       <<"p","r","o","j","e","c","t">>, <<"l","a","b">> >>

\* assignment_pattern = r'\b(assignment|homework|hw|quiz|exam|test|project|lab)\s*#?\s*(\d+)\b', re.IGNORECASE
AssignmentMatchAt(text, i) ==
    LET kws == {j \in 1..Len(AssignmentKeywords) :
                    /\ i + Len(AssignmentKeywords[j]) - 1 <= Len(text)
                    /\ Lower(SubSeq(text, i, i + Len(AssignmentKeywords[j]) - 1))
                           = AssignmentKeywords[j]}
    IN  IF ~WordBoundary(text, i - 1) \/ kws = {} THEN NoMatch
        ELSE LET kw == AssignmentKeywords[CHOOSE j \in kws : \A l \in kws : j <= l]
                 p == SkipSeparator(text, i + Len(kw), "#")
                 d == RunLen(text, p, DigitSet)
             IN  IF d >= 1 /\ WordBoundary(text, p + d - 1)
                 THEN [from |-> i, to |-> p + d - 1]
                 ELSE NoMatch

\* number_pattern = r'\b(\d{1,3})\b'
NumberMatchAt(text, i) ==
    LET d == RunLen(text, i, DigitSet)
    IN  IF WordBoundary(text, i - 1) /\ d >= 1 /\ d <= 3 /\ WordBoundary(text, i + d - 1)
        THEN [from |-> i, to |-> i + d - 1]
        ELSE NoMatch

\* numbers skipped as "very common/likely non-identifier"
CommonNumbers == { <<"1">>, <<"2">>, <<"3">>, <<"1","0">>, <<"2","0">>, <<"1","0","0">> }

\* no number skipped, which C13 must tell apart from NotCommonNumber
EveryNumberKept(num) == TRUE

NotCommonNumber(num) == num \notin CommonNumbers

extract_identifiers(query) ==
    LET courses == FindIter([i \in 1..Len(query) |-> CourseMatchAt(query, i)], 1)
        assigns == FindIter([i \in 1..Len(query) |-> AssignmentMatchAt(query, i)], 1)
        numbers == FindIter([i \in 1..Len(query) |-> NumberMatchAt(query, i)], 1)
    IN  [course_codes |->
             Flatten([j \in 1..Len(courses) |->
                 << Upper(courses[j].dept) \o courses[j].num,
                    Capitalize(Lower(courses[j].dept)) \o courses[j].num >>]),
         course_numbers |-> [j \in 1..Len(courses) |-> courses[j].num],
         assignment_patterns |->
             [j \in 1..Len(assigns) |-> SubSeq(query, assigns[j].from, assigns[j].to)],
         raw_numbers |->
             SelectSeq([j \in 1..Len(numbers) |-> SubSeq(query, numbers[j].from, numbers[j].to)],
                       NotCommonNumber)]

\* any(identifiers.values())
AnyIdentifiers(identifiers) ==
    \/ identifiers.course_codes # <<>>
    \/ identifiers.course_numbers # <<>>
    \/ identifiers.assignment_patterns # <<>>
    \/ identifiers.raw_numbers # <<>>

\* sum(len(vals) for vals in identifiers.values())
IdentifierCount(identifiers) ==
    Len(identifiers.course_codes) + Len(identifiers.course_numbers)
        + Len(identifiers.assignment_patterns) + Len(identifiers.raw_numbers)

(***************************************************************************)
(* Vectors, scores and the Index Store.                                    *)
(*                                                                         *)
(* A Document is [page_content, metadata]; metadata is what CSVLoader      *)
(* attaches: the source path and the row number.  An Index Store is the    *)
(* sequence of its entries [doc, vec], vec being the unit vector that      *)
(* faiss.normalize_L2 leaves in the IndexFlatIP index.                     *)
(***************************************************************************)
\* length of a unit vector in the integer representation
UnitNorm == 5
\* inner products of unit vectors are integers in units of 1/IpScale
IpScale == UnitNorm * UnitNorm
\* similarities are integers in units of 1/ScoreScale (d*d/2.0 stays exact)
ScoreScale == 2 * IpScale * IpScale

Dot(u, v) == u[1] * v[1] + u[2] * v[2]

\* faiss.normalize_L2: v scaled to unit length (the vectors of the model
\* have integer norms that divide their components' products with UnitNorm)
NormalizeL2(v) ==
    LET n == CHOOSE m \in 0..(4 * UnitNorm) : m * m = Dot(v, v)
    IN  IF n = 0 THEN v ELSE << (v[1] * UnitNorm) \div n, (v[2] * UnitNorm) \div n >>

Max(a, b) == IF a >= b THEN a ELSE b
Min(a, b) == IF a <= b THEN a ELSE b

\* similarity = max(0.0, 1.0 - (distance * distance / 2.0)), distance in
\* units of 1/IpScale and the result in units of 1/ScoreScale
Similarity(distance) == Max(0, ScoreScale - distance * distance)

\* min_score is [given, value]: None (given = FALSE) or a float, value in
\* units of 1/ScoreScale
NoMinScore == [given |-> FALSE, value |-> 0]
MinScore(v) == [given |-> TRUE, value |-> v]

\* str(min_score): "None", or the repr of the float min_score/ScoreScale
\* (a decimal of at most 4 places, printed without trailing zeros)
RECURSIVE TrimZeros(_)
TrimZeros(ds) ==
    IF Len(ds) > 1 /\ ds[Len(ds)] = "0" THEN TrimZeros(SubSeq(ds, 1, Len(ds) - 1)) ELSE ds

FloatStr(min_score) ==
    IF ~min_score.given THEN <<"N","o","n","e">>
    ELSE LET whole == min_score.value \div ScoreScale
             frac == ((min_score.value % ScoreScale) * 10000) \div ScoreScale
             fd == DecStr(frac)
             pad == [i \in 1..(4 - Len(fd)) |-> "0"]
         IN  DecStr(whole) \o <<".">> \o TrimZeros(pad \o fd)

\* IndexFlatIP.search through FAISS.similarity_search_with_score: the k
\* entries of greatest inner product with the query vector, greatest first
\* (entries of equal inner product in index order), as (Document, inner
\* product) pairs; fewer than k when the index holds fewer.
RECURSIVE InsertByIp(_, _)
InsertByIp(sorted, pair) ==
    IF sorted = <<>> THEN <<pair>>
    ELSE IF Head(sorted)[2] >= pair[2] THEN <<Head(sorted)>> \o InsertByIp(Tail(sorted), pair)
         ELSE <<pair>> \o sorted

RECURSIVE SortByIp(_, _)
SortByIp(pairs, i) ==
    IF i = 0 THEN <<>> ELSE InsertByIp(SortByIp(pairs, i - 1), pairs[i])

Take(s, n) == SubSeq(s, 1, Min(n, Len(s)))

similarity_search_with_score(store, qvec, k) ==
    LET pairs == [i \in 1..Len(store) |-> << store[i].doc, Dot(store[i].vec, qvec) >>]
    IN  Take(SortByIp(pairs, Len(pairs)), k)

(***************************************************************************)
(* adaptive_k_fetch, process_scores_batch, should_require_identifier,      *)
(* filter_by_identifiers_optimized (vector.py 331-437).                    *)
(***************************************************************************)
DbSummary == <<"c","o","u","r","s","e","_","c","o","n","t","e","n","t","_","s","u","m","m","a","r","y">>
DbGrades == <<"g","r","a","d","e","s">>
DbCourses == <<"c","o","u","r","s","e","s">>
DbUsers == <<"u","s","e","r","s">>

\* the default multiplier for every database, which C11 must tell apart
\* from adaptive_k_fetch
adaptive_k_fetch_default(query, identifiers, k, db_name) ==
    IF ~AnyIdentifiers(identifiers) THEN k ELSE k * 2

\* the multipliers of "course_content_summary" and "grades" exchanged, which
\* C27 must tell apart from adaptive_k_fetch
adaptive_k_fetch_exchanged(query, identifiers, k, db_name) ==
    IF ~AnyIdentifiers(identifiers) THEN k
    ELSE IF db_name = DbSummary THEN Min(k * 2, k + IdentifierCount(identifiers))
    ELSE IF db_name = DbGrades THEN Min(k * 3, k + IdentifierCount(identifiers) * 2)
    ELSE IF db_name \in {DbCourses, DbUsers} THEN k
    ELSE k * 2

adaptive_k_fetch(query, identifiers, k, db_name) ==
    IF ~AnyIdentifiers(identifiers) THEN k
    ELSE IF db_name = DbSummary THEN Min(k * 3, k + IdentifierCount(identifiers) * 2)
    ELSE IF db_name = DbGrades THEN Min(k * 2, k + IdentifierCount(identifiers))
    ELSE IF db_name \in {DbCourses, DbUsers} THEN k
    ELSE k * 2

\* sorted(results, key=lambda x: x[1], reverse=True): stable, greatest first
RECURSIVE InsertByScore(_, _)
InsertByScore(sorted, pair) ==
    IF sorted = <<>> THEN <<pair>>
    ELSE IF Head(sorted)[2] >= pair[2] THEN <<Head(sorted)>> \o InsertByScore(Tail(sorted), pair)
         ELSE <<pair>> \o sorted

RECURSIVE SortedByScore(_, _)
SortedByScore(results, i) ==
    IF i = 0 THEN <<>> ELSE InsertByScore(SortedByScore(results, i - 1), results[i])

\* the (doc, similarity) pairs of the fetched (doc, distance) pairs that
\* pass min_score, in fetch order (the loop of 403-410 and of 581-584)
RECURSIVE ScoredPairs(_, _, _)
ScoredPairs(pairs, i, min_score) ==
    IF i > Len(pairs) THEN <<>>
    ELSE LET similarity == Similarity(pairs[i][2])
         IN  (IF ~min_score.given \/ similarity >= min_score.value
              THEN << <<pairs[i][1], similarity>> >> ELSE <<>>)
             \o ScoredPairs(pairs, i + 1, min_score)

process_scores_batch(pairs, min_score) ==
    LET results == ScoredPairs(pairs, 1, min_score)
    IN  SortedByScore(results, Len(results))

\* every identifier value, in the order of identifiers.values()
AllIdentifierValues(identifiers) ==
    identifiers.course_codes \o identifiers.course_numbers
        \o identifiers.assignment_patterns \o identifiers.raw_numbers

should_require_identifier(results, identifiers) ==
    IF ~AnyIdentifiers(identifiers) THEN FALSE
    ELSE LET top == Take(results, 3)
             ids == AllIdentifierValues(identifiers)
         IN  ~ \E i \in 1..Len(top), j \in 1..Len(ids) :
                   Contains(Lower(top[i][1].page_content), Lower(ids[j]))

\* ' '.join(str(v).lower() for v in doc.metadata.values())
MetadataText(doc) == Lower(doc.metadata.source) \o <<" ">> \o DecStr(doc.metadata.row)

\* f"{text} {metadata_text}"
CombinedText(doc) == Lower(doc.page_content) \o <<" ">> \o MetadataText(doc)

\* re.compile(r'\b' + re.escape(str(id_val).lower()) + r'\b', re.IGNORECASE).search(text)
PatternSearch(id_val, text) ==
    \E i \in 0..(Len(text) - Len(id_val)) :
        /\ WordBoundary(text, i)
        /\ Lower(SubSeq(text, i + 1, i + Len(id_val))) = Lower(id_val)
        /\ WordBoundary(text, i + Len(id_val))

RECURSIVE KeepMatching(_, _, _)
KeepMatching(results, i, patterns) ==
    IF i > Len(results) THEN <<>>
    ELSE (IF \E j \in 1..Len(patterns) : PatternSearch(patterns[j], CombinedText(results[i][1]))
          THEN <<results[i]>> ELSE <<>>)
         \o KeepMatching(results, i + 1, patterns)

filter_by_identifiers_optimized(results, identifiers) ==
    IF ~AnyIdentifiers(identifiers) THEN results
    ELSE LET patterns == identifiers.course_codes \o identifiers.assignment_patterns
                             \o identifiers.raw_numbers
         IN  IF patterns = <<>> THEN results
             ELSE KeepMatching(results, 1, patterns)

(***************************************************************************)
(* The caches (vector.py 18-99).                                           *)
(***************************************************************************)
\* a key made from the query as written, which C3 must tell apart from
\* ResultKey
ResultKeyAsWritten(query, db_name, k, min_score) ==
    query \o <<"|">> \o db_name \o <<"|">> \o DecStr(k) \o <<"|">> \o FloatStr(min_score)

\* cache_key = f"{query.strip().lower()}|{db_name}|{k}|{min_score}"
ResultKey(query, db_name, k, min_score) ==
    Lower(Strip(query)) \o <<"|">> \o db_name \o <<"|">> \o DecStr(k)
        \o <<"|">> \o FloatStr(min_score)

\* [found, results]: the cached list, or found = FALSE for None
get_cached_results(query, db_name, k, min_score) ==
    LET cache_key == ResultKey(query, db_name, k, min_score)
    IN  IF cache_key \in DOMAIN RESULT_CACHE
        THEN [found |-> TRUE, results |-> RESULT_CACHE[cache_key]]
        ELSE [found |-> FALSE, results |-> <<>>]

\* the Result Cache after cache_results
cache_results(query, db_name, k, results, min_score) ==
    (ResultKey(query, db_name, k, min_score) :> results) @@ RESULT_CACHE

\* f"{out_dir_name}/{db_name}", also the directory base / out_dir_name / db_name
StorePath(out_dir_name, db_name) == out_dir_name \o <<"/">> \o db_name

\* a db handle: None (ok = FALSE) or a loaded Index Store
NoDb == [ok |-> FALSE, store |-> <<>>]
Db(store) == [ok |-> TRUE, store |-> store]

\* [db, cache, did]: the handle returned, _DB_CACHE afterwards, and whether
\* FAISS.load_local was attempted; load_ok tells whether load_local succeeds
get_cached_db(db_name, out_dir_name, load_ok) ==
    LET cache_key == StorePath(out_dir_name, db_name)
    IN  IF cache_key \in DOMAIN DB_CACHE
        THEN [db |-> Db(DB_CACHE[cache_key]), cache |-> DB_CACHE, did |-> <<>>]
        ELSE IF cache_key \notin DOMAIN disk
        THEN [db |-> NoDb, cache |-> DB_CACHE, did |-> <<>>]
        ELSE IF load_ok /\ ~disk[cache_key].torn
        THEN [db |-> Db(disk[cache_key].store),
              cache |-> (cache_key :> disk[cache_key].store) @@ DB_CACHE,
              did |-> <<"load_db">>]
        ELSE [db |-> NoDb, cache |-> DB_CACHE, did |-> <<"load_db">>]

\* the Embedding Provider (BAAI/bge-small-en-v1.5), a black box: the unit
\* vectors it returns for the query texts of the model.  It reads the text
\* as written, so texts that differ in case may get different vectors.
embed_query(text) ==
    CASE text = <<"m","a","t","h","4","6","1">> -> <<4, 3>>
      [] text = <<"M","A","T","H"," ","4","6","1">> -> <<5, 0>>
      [] text = <<"g","r","a","d","e","s">> -> <<0, 5>>
      [] text = <<"G","r","a","d","e","s">> -> <<3, 4>>
      [] OTHER -> <<-4, 3>>

\* [embedding, cache, did]: get_cached_query_embedding
get_cached_query_embedding(query) ==
    LET cache_key == Lower(Strip(query))
    IN  IF cache_key \in DOMAIN QUERY_CACHE
        THEN [embedding |-> QUERY_CACHE[cache_key], cache |-> QUERY_CACHE, did |-> <<>>]
        ELSE [embedding |-> embed_query(query),
              cache |-> (cache_key :> embed_query(query)) @@ QUERY_CACHE,
              did |-> <<"embed_query">>]

(***************************************************************************)
(* The Index Builder: vectorize (vector.py 195-288).                       *)
(***************************************************************************)
GradesCsv == <<"g","r","a","d","e","s",".","c","s","v">>
CoursesCsv == <<"c","o","u","r","s","e","s",".","c","s","v">>
SampleCsv == <<"s","a","m","p","l","e",".","c","s","v">>

\* a CSV row as CSVLoader reads it, with the vector the Embedding Provider
\* returns for its text
Row(page_content, emb) == [page_content |-> page_content, emb |-> emb]

GradesRows ==
    << Row(<<"m","a","t","h","2","2","1"," ","h","w">>, <<10, 0>>),
       Row(<<"m","a","t","h","2","2","1"," ","q","u","i","z">>, <<4, 3>>),
       Row(<<"m","a","t","h","2","2","1"," ","l","a","b">>, <<8, -6>>),
       Row(<<"m","a","t","h","4","6","1"," ","h","w">>, <<0, 5>>) >>

CoursesRows ==
    << Row(<<"m","a","t","h","4","6","1">>, <<3, 4>>),
       Row(<<"m","a","t","h","2","2","1">>, <<0, 10>>) >>

\* the CSV files of the data folder; sample.csv (the default) is absent
CsvData(csv_filename) ==
    IF csv_filename = GradesCsv THEN [exists |-> TRUE, rows |-> GradesRows]
    ELSE IF csv_filename = CoursesCsv THEN [exists |-> TRUE, rows |-> CoursesRows]
    ELSE [exists |-> FALSE, rows |-> <<>>]

\* steps 1-4 without failure: one Document per row (the rows of the model
\* are shorter than chunk_size, so the splitter leaves them whole), its
\* embedding normalized into the IndexFlatIP index
BuildStore(csv_filename, rows) ==
    [i \in 1..Len(rows) |->
        [doc |-> [page_content |-> rows[i].page_content,
                  metadata |-> [source |-> csv_filename, row |-> i - 1]],
         vec |-> NormalizeL2(rows[i].emb)]]

\* what is on disk under a store path: a saved store, or the files of an
\* interrupted save_local
Saved(store) == [torn |-> FALSE, store |-> store]
TornSave == [torn |-> TRUE, store |-> <<>>]

\* the steps of vectorize that can raise
BuildFailures == {"load_csv", "split", "embeddings", "index", "save"}

\* [db, disk, did]: fail_at names the step that raises ("none": no step)
vectorize(csv_filename, out_dir_name, db_name, fail_at) ==
    LET file == CsvData(csv_filename)
        path == StorePath(out_dir_name, db_name)
    IN  IF ~file.exists THEN [db |-> NoDb, disk |-> disk, did |-> <<>>]
        ELSE IF fail_at \in {"load_csv", "split", "embeddings", "index"}
        THEN [db |-> NoDb, disk |-> disk, did |-> <<"build">>]
        ELSE IF fail_at = "save"
        THEN [db |-> NoDb, disk |-> (path :> TornSave) @@ disk, did |-> <<"build">>]
        ELSE [db |-> Db(BuildStore(csv_filename, file.rows)),
              disk |-> (path :> Saved(BuildStore(csv_filename, file.rows))) @@ disk,
              did |-> <<"build">>]

(***************************************************************************)
(* The Hybrid Retriever: perform_search (vector.py 474-605).               *)
(***************************************************************************)
\* variants of the fallback that C6 and C9 must tell apart from
\* fallback_results: the emptied filter result kept, and min_score not
\* applied again
fallback_keeps_filtered(pairs, min_score) == <<>>

fallback_without_min_score(pairs, min_score) ==
    LET results == ScoredPairs(pairs, 1, NoMinScore)
    IN  SortedByScore(results, Len(results))

\* lines 577-585: the fetched pairs scored again, filtered by min_score and
\* sorted, used when identifier filtering left nothing
fallback_results(pairs, min_score) ==
    LET results == ScoredPairs(pairs, 1, min_score)
    IN  SortedByScore(results, Len(results))

\* a cut one entry late, which C10 must tell apart from limit_to_k
limit_to_k_plus_one(results, k) == Take(results, k + 1)

\* results[:k] for k >= 0
limit_to_k(results, k) == Take(results, k)

\* lines 567-588, from the fetched pairs to the list returned:
\* [results, scored, kept, strict, fallback]
hybrid_results(pairs, identifiers, k, min_score) ==
    LET scored == process_scores_batch(pairs, min_score)
        strict == AnyIdentifiers(identifiers) /\ should_require_identifier(scored, identifiers)
        filtered == filter_by_identifiers_optimized(scored, identifiers)
        fallback == strict /\ filtered = <<>>
        results == IF ~strict THEN scored
                   ELSE IF fallback THEN fallback_results(pairs, min_score)
                   ELSE filtered
    IN  [results |-> limit_to_k(results, k), scored |-> scored, kept |-> results,
         strict |-> strict, fallback |-> fallback]

\* what a call did not reach
NoSearch ==
    [hit |-> FALSE, searched |-> FALSE, k_fetch |-> 0, pairs |-> <<>>, scored |-> <<>>,
     kept |-> <<>>, strict |-> FALSE, fallback |-> FALSE]

\* lines 544-605, after the Result Cache has missed: [ok, results, qcache,
\* rcache, did, info]; search_ok tells whether similarity_search_with_score
\* returns
search_after_miss(query, k, db_name, min_score, db, search_ok) ==
    LET query_clean == Strip(query)
        identifiers == extract_identifiers(query_clean)
        k_fetch == adaptive_k_fetch(query_clean, identifiers, k, db_name)
        query_embedding == get_cached_query_embedding(query_clean)
        pairs == similarity_search_with_score(db.store, embed_query(query_clean), k_fetch)
        hybrid == hybrid_results(pairs, identifiers, k, min_score)
        did == query_embedding.did \o <<"embed_query", "index_search">>
    IN  IF ~search_ok
        THEN [ok |-> FALSE, results |-> <<>>,
              qcache |-> query_embedding.cache, rcache |-> RESULT_CACHE, did |-> did,
              info |-> [NoSearch EXCEPT !.k_fetch = k_fetch]]
        ELSE IF pairs = <<>>
        THEN [ok |-> TRUE, results |-> <<>>,
              qcache |-> query_embedding.cache, rcache |-> RESULT_CACHE, did |-> did,
              info |-> [NoSearch EXCEPT !.searched = TRUE, !.k_fetch = k_fetch]]
        ELSE [ok |-> TRUE, results |-> hybrid.results,
              qcache |-> query_embedding.cache,
              rcache |-> cache_results(query, db_name, k, hybrid.results, min_score),
              did |-> did \o <<"cache_write">>,
              info |-> [hit |-> FALSE, searched |-> TRUE, k_fetch |-> k_fetch,
                        pairs |-> pairs, scored |-> hybrid.scored, kept |-> hybrid.kept,
                        strict |-> hybrid.strict, fallback |-> hybrid.fallback]]

\* lines 539-605, with a db handle in hand: the cached list, or the list
\* computed after a miss
search_with_db(query, k, db_name, min_score, db, search_ok) ==
    LET cached_results == get_cached_results(query, db_name, k, min_score)
    IN  IF cached_results.found
        THEN [ok |-> TRUE, results |-> cached_results.results,
              qcache |-> QUERY_CACHE, rcache |-> RESULT_CACHE, did |-> <<"cache_hit">>,
              info |-> [NoSearch EXCEPT !.hit = TRUE]]
        ELSE search_after_miss(query, k, db_name, min_score, db, search_ok)

\* the record kept of an operation
CallRecord(op, query, k, csv_filename, out_dir_name, recreate_if_missing, db_name, min_score, ok, ret, did, info) ==
    [op |-> op, query |-> query, k |-> k, csv_filename |-> csv_filename,
     out_dir_name |-> out_dir_name, recreate_if_missing |-> recreate_if_missing,
     db_name |-> db_name, min_score |-> min_score,
     cached_before |-> get_cached_results(query, db_name, k, min_score),
     ok |-> ok, ret |-> ret, did |-> did, info |-> info]

\* env: what the environment does during the call: env.model, env.load and
\* env.search tell whether the embedding model loads, FAISS.load_local
\* succeeds and the index search returns; env.build is the failing step of
\* a rebuild
perform_search(query, k, csv_filename, out_dir_name, recreate_if_missing, db_name, min_score, env) ==
    LET load_model == IF EMBEDDINGS_CACHE = "None" THEN <<"load_model">> ELSE <<>>
    IN  /\ ncalls' = ncalls + 1
        /\ IF EMBEDDINGS_CACHE = "None" /\ ~env.model
           THEN \* 520-523
                /\ UNCHANGED <<EMBEDDINGS_CACHE, DB_CACHE, QUERY_CACHE, RESULT_CACHE, disk>>
                /\ call' = CallRecord("search", query, k, csv_filename, out_dir_name,
                               recreate_if_missing, db_name, min_score,
                               FALSE, <<>>, load_model, NoSearch)
           ELSE \E got \in {get_cached_db(db_name, out_dir_name, env.load)} :
                \E rebuilt \in {IF ~got.db.ok /\ recreate_if_missing
                                THEN vectorize(csv_filename, out_dir_name, db_name, env.build)
                                ELSE [db |-> got.db, disk |-> disk, did |-> <<>>]} :
                    /\ EMBEDDINGS_CACHE' = "model"
                    /\ DB_CACHE' = got.cache
                    /\ disk' = rebuilt.disk
                    /\ IF ~rebuilt.db.ok
                       THEN \* 532-537
                            /\ UNCHANGED <<QUERY_CACHE, RESULT_CACHE>>
                            /\ call' = CallRecord("search", query, k, csv_filename,
                                           out_dir_name, recreate_if_missing, db_name,
                                           min_score, FALSE, <<>>,
                                           load_model \o got.did \o rebuilt.did, NoSearch)
                       ELSE \E found \in {search_with_db(query, k, db_name, min_score,
                                                         rebuilt.db, env.search)} :
                            /\ QUERY_CACHE' = found.qcache
                            /\ RESULT_CACHE' = found.rcache
                            /\ call' = CallRecord("search", query, k, csv_filename,
                                           out_dir_name, recreate_if_missing, db_name,
                                           min_score, found.ok, found.results,
                                           load_model \o got.did \o rebuilt.did \o found.did,
                                           found.info)

\* vectorize run on its own (the command line, or the server's start-up)
Vectorize(csv_filename, out_dir_name, db_name, fail_at) ==
    LET built == vectorize(csv_filename, out_dir_name, db_name, fail_at)
    IN  /\ ncalls' = ncalls + 1
        /\ disk' = built.disk
        /\ UNCHANGED <<EMBEDDINGS_CACHE, DB_CACHE, QUERY_CACHE, RESULT_CACHE>>
        /\ call' = CallRecord("vectorize", <<>>, 0, csv_filename, out_dir_name, FALSE,
                       db_name, NoMinScore, built.db.ok, <<>>, built.did, NoSearch)

(***************************************************************************)
(* The inputs of the model.                                                *)
(***************************************************************************)
\* most calls and builds in one behaviour of Spec
MaxCalls == 2
\* greatest k passed to perform_search
MaxK == 2
\* rows of the CSV files that SpecRank draws
NumRows == 4

OutVectorstore == <<"v","e","c","t","o","r","s","t","o","r","e">>
OutAlt == <<"a","l","t">>
OutDirs == {OutVectorstore, OutAlt}

QueryGrades == <<"g","r","a","d","e","s">>
QueryGradesSpaced == <<" ","G","r","a","d","e","s"," ">>
QueryCode == <<"m","a","t","h","4","6","1">>
QueryCodeSpaced == <<"M","A","T","H"," ","4","6","1">>

Queries == {QueryGrades, QueryGradesSpaced, QueryCodeSpaced}
\* min_score: None, 0.6 and 0.9
MinScores == {NoMinScore, MinScore(750)}
RankMinScores == {NoMinScore, MinScore(750), MinScore(1125)}

\* the CSV the callers pass with a database name: f"{table}.csv"
CsvOf(db_name) == db_name \o <<".","c","s","v">>

EnvOk == [model |-> TRUE, load |-> TRUE, search |-> TRUE, build |-> "none"]
Envs ==
    {EnvOk, [EnvOk EXCEPT !.model = FALSE], [EnvOk EXCEPT !.load = FALSE],
     [EnvOk EXCEPT !.search = FALSE]}
        \cup {[EnvOk EXCEPT !.build = f] : f \in BuildFailures}

EmptyCache == [x \in {} |-> <<>>]

\* the server starts with empty caches; vectorstore/grades was built from
\* grades.csv; alt/grades is absent, or holds a store without documents, or
\* a store built from other rows
InitialDisks ==
    LET main == StorePath(OutVectorstore, DbGrades) :> Saved(BuildStore(GradesCsv, GradesRows))
        alt == StorePath(OutAlt, DbGrades)
    IN  {main, (alt :> Saved(<<>>)) @@ main,
         (alt :> Saved(BuildStore(CoursesCsv, CoursesRows))) @@ main}

Init ==
    /\ EMBEDDINGS_CACHE = "None"
    /\ DB_CACHE = EmptyCache
    /\ QUERY_CACHE = EmptyCache
    /\ RESULT_CACHE = EmptyCache
    /\ disk \in InitialDisks
    /\ ncalls = 0
    /\ InitWeb
    /\ call = CallRecord("init", <<>>, 0, <<>>, <<>>, FALSE, <<>>, NoMinScore,
                         FALSE, <<>>, <<>>, NoSearch)

Search ==
    \E query \in Queries, k \in 1..MaxK, out_dir_name \in OutDirs,
       recreate_if_missing \in BOOLEAN, min_score \in MinScores, env \in Envs :
        /\ ncalls < MaxCalls
        /\ perform_search(query, k, CsvOf(DbGrades), out_dir_name, recreate_if_missing,
                          DbGrades, min_score, env)
        /\ UNCHANGED web_vars

Build ==
    \E csv_filename \in {GradesCsv, CoursesCsv, SampleCsv}, out_dir_name \in OutDirs,
       fail_at \in BuildFailures \cup {"none"} :
        /\ ncalls < MaxCalls
        /\ Vectorize(csv_filename, out_dir_name, DbGrades, fail_at)
        /\ UNCHANGED web_vars

Next == Search \/ Build

Spec == Init /\ [][Next]_vars

(***************************************************************************)
(* SpecRank: one search over every store of NumRows documents drawn from   *)
(* the four kinds of text below, for the ranking and filtering claims.     *)
(***************************************************************************)
MathCsv == <<"m","a","t","h","4","6","1",".","c","s","v">>

\* texts that hold the course code as a word, inside a longer word, only
\* its number, and no identifier
RowTexts ==
    << <<"m","a","t","h","4","6","1"," ","h","w">>,
       <<"m","a","t","h","4","6","1","_","x">>,
       <<"r","o","o","m"," ","4","6","1">>,
       <<"m","a","t","h","2","2","1">> >>

RowEmbeddings == << <<10, 0>>, <<4, 3>>, <<0, -5>>, <<0, 5>> >>

\* row i of a drawn CSV: its text (made unlike the other rows' by a last
\* word) and the vector the Embedding Provider returns for it
RankRows(kinds) ==
    [i \in 1..NumRows |->
        Row(RowTexts[kinds[i]] \o <<" ", LowerLetters[i]>>,
            RowEmbeddings[((i - 1) % Len(RowEmbeddings)) + 1])]

RankDbs == {DbGrades, DbSummary}
RankQueries == {QueryGrades, QueryCode, QueryCodeSpaced}

InitRank ==
    /\ EMBEDDINGS_CACHE = "None"
    /\ DB_CACHE = EmptyCache
    /\ QUERY_CACHE = EmptyCache
    /\ RESULT_CACHE = EmptyCache
    /\ \E kinds \in [1..NumRows -> 1..Len(RowTexts)], source \in {GradesCsv, MathCsv} :
           disk = [path \in {StorePath(OutVectorstore, db) : db \in RankDbs} |->
                      Saved(BuildStore(source, RankRows(kinds)))]
    /\ ncalls = 0
    /\ InitWeb
    /\ call = CallRecord("init", <<>>, 0, <<>>, <<>>, FALSE, <<>>, NoMinScore,
                         FALSE, <<>>, <<>>, NoSearch)

SearchOnce ==
    \E query \in RankQueries, k \in 0..MaxK, db_name \in RankDbs,
       min_score \in RankMinScores, search \in BOOLEAN :
        /\ ncalls = 0
        /\ perform_search(query, k, CsvOf(db_name), OutVectorstore, FALSE, db_name,
                          min_score, [EnvOk EXCEPT !.search = search])
        /\ UNCHANGED web_vars

SpecRank == InitRank /\ [][SearchOnce]_vars

(***************************************************************************)
(* SpecKey: up to MaxCalls searches of one loaded store, the queries       *)
(* written in every way, for the claims about the Result Cache key.        *)
(***************************************************************************)
KeyQueries == Queries \cup RankQueries

InitKey ==
    /\ EMBEDDINGS_CACHE = "None"
    /\ DB_CACHE = EmptyCache
    /\ QUERY_CACHE = EmptyCache
    /\ RESULT_CACHE = EmptyCache
    /\ disk = StorePath(OutVectorstore, DbGrades) :> Saved(BuildStore(GradesCsv, GradesRows))
    /\ ncalls = 0
    /\ InitWeb
    /\ call = CallRecord("init", <<>>, 0, <<>>, <<>>, FALSE, <<>>, NoMinScore,
                         FALSE, <<>>, <<>>, NoSearch)

SearchKeyed ==
    \E query \in KeyQueries, k \in 1..MaxK, min_score \in MinScores, search \in BOOLEAN :
        /\ ncalls < MaxCalls
        /\ perform_search(query, k, CsvOf(DbGrades), OutVectorstore, FALSE, DbGrades,
                          min_score, [EnvOk EXCEPT !.search = search])
        /\ UNCHANGED web_vars

SpecKey == InitKey /\ [][SearchKeyed]_vars

(***************************************************************************)
(* SpecIdent: extract_identifiers applied to every query made of a word,   *)
(* a separator, a number and a tail, then adaptive_k_fetch applied to the  *)
(* Identifier Set, for the claims about these two functions.               *)
(***************************************************************************)
QueryWords ==
    { <<"g","r","a","d","e","s"," ","i","n"," ">>,
      <<"m","a","t","h">>,
      <<"C","m","p","s","c">>,
      <<"P","H","Y","S","I","C">>,
      <<"a","b","c">>,
      <<"a","b","c","d","e","f","g">>,
      <<"x"," ","m","a","t","h">>,
      <<"h","w">>,
      <<"A","s","s","i","g","n","m","e","n","t">>,
      <<"q","u","i","z">> }
QuerySeparators == { <<>>,
                     <<" ">>,
                     <<"-">>,
                     <<" ","-"," ">>,
                     <<" ","#">>,
                     <<"_">> }
QueryNumbers == { <<>>,
                   <<"1">>,
                   <<"0","1">>,
                   <<"7">>,
                   <<"2","0">>,
                   <<"4","6","1">>,
                   <<"4","6","1","1">> }
QueryTails == { <<>>,
                <<" ","1","0","0">>,
                <<"x">>,
                <<" ","a","n","d"," ","p","h","y","s","-","2","1","2">> }

IdentQueries ==
    {w \o p \o n \o t : w \in QueryWords, p \in QuerySeparators, n \in QueryNumbers,
                           t \in QueryTails}

AllDbs == {DbSummary, DbGrades, DbCourses, DbUsers, <<"d","b","_","f","a","i","s","s">>}

InitIdent ==
    /\ EMBEDDINGS_CACHE = "None"
    /\ DB_CACHE = EmptyCache
    /\ QUERY_CACHE = EmptyCache
    /\ RESULT_CACHE = EmptyCache
    /\ disk = EmptyCache
    /\ ncalls = 0
    /\ InitWeb
    /\ \E query \in IdentQueries :
           call = CallRecord("init", query, 0, <<>>, <<>>, FALSE, <<>>, NoMinScore,
                             FALSE, <<>>, <<>>, NoSearch)

\* the k of a fetch count: up to twice MaxK, so that k can exceed twice the
\* identifier count of a query that holds one identifier
FetchKs == 0..(2 * MaxK)

\* identifiers = extract_identifiers(query_clean)
Identify ==
    /\ ncalls = 0
    /\ ncalls' = 1
    /\ call' = [call EXCEPT !.op = "extract_identifiers", !.ok = TRUE,
                            !.ret = extract_identifiers(call.query)]
    /\ UNCHANGED <<EMBEDDINGS_CACHE, DB_CACHE, QUERY_CACHE, RESULT_CACHE, disk>>
    /\ UNCHANGED web_vars

\* k_fetch = adaptive_k_fetch(query_clean, identifiers, k, db_name)
FetchCount ==
    \E k \in FetchKs, db_name \in AllDbs :
        /\ ncalls = 1
        /\ ncalls' = 2
        /\ call' = [call EXCEPT !.op = "adaptive_k_fetch", !.k = k, !.db_name = db_name,
                                !.info.k_fetch = adaptive_k_fetch(call.query, call.ret, k, db_name)]
        /\ UNCHANGED <<EMBEDDINGS_CACHE, DB_CACHE, QUERY_CACHE, RESULT_CACHE, disk>>
        /\ UNCHANGED web_vars

NextIdent == Identify \/ FetchCount

SpecIdent == InitIdent /\ [][NextIdent]_vars

(***************************************************************************)
(* SpecPipe: up to MaxCalls searches of two loaded stores, where the query *)
(* and the database name may hold the separator of the Result Cache key.   *)
(***************************************************************************)
QueryPiped == QueryCode \o <<"|">> \o DbGrades
DbPiped == DbGrades \o <<"|">> \o DbGrades

InitPipe ==
    /\ EMBEDDINGS_CACHE = "None"
    /\ DB_CACHE = EmptyCache
    /\ QUERY_CACHE = EmptyCache
    /\ RESULT_CACHE = EmptyCache
    /\ disk = (StorePath(OutVectorstore, DbGrades) :> Saved(BuildStore(GradesCsv, GradesRows)))
                  @@ (StorePath(OutVectorstore, DbPiped)
                          :> Saved(BuildStore(CoursesCsv, CoursesRows)))
    /\ ncalls = 0
    /\ InitWeb
    /\ call = CallRecord("init", <<>>, 0, <<>>, <<>>, FALSE, <<>>, NoMinScore,
                         FALSE, <<>>, <<>>, NoSearch)

SearchPiped ==
    \E query \in {QueryCode, QueryPiped}, db_name \in {DbGrades, DbPiped}, k \in 1..MaxK,
       min_score \in MinScores :
        /\ ncalls < MaxCalls
        /\ perform_search(query, k, CsvOf(db_name), OutVectorstore, FALSE, db_name,
                          min_score, EnvOk)
        /\ UNCHANGED web_vars

SpecPipe == InitPipe /\ [][SearchPiped]_vars

(***************************************************************************)
(* SpecStale: searches and rebuilds of the stores of one database name, a  *)
(* step more than in Spec, so that a search can follow the rebuild of a    *)
(* store whose results are cached.                                         *)
(***************************************************************************)
MaxSteps == MaxCalls + 1

SearchStale ==
    \E query \in {QueryGrades, QueryCode}, k \in 1..MaxK, out_dir_name \in OutDirs,
       recreate_if_missing \in BOOLEAN, env \in {EnvOk, [EnvOk EXCEPT !.load = FALSE]} :
        /\ ncalls < MaxSteps
        /\ perform_search(query, k, CsvOf(DbGrades), out_dir_name, recreate_if_missing,
                          DbGrades, NoMinScore, env)
        /\ UNCHANGED web_vars

Rebuild ==
    \E csv_filename \in {GradesCsv, CoursesCsv}, out_dir_name \in OutDirs,
       fail_at \in {"none", "save"} :
        /\ ncalls < MaxSteps
        /\ Vectorize(csv_filename, out_dir_name, DbGrades, fail_at)
        /\ UNCHANGED web_vars

NextStale == SearchStale \/ Rebuild

SpecStale == Init /\ [][NextStale]_vars

(***************************************************************************)
(* The Query Planner's text handling (llm.py 161-201).                     *)
(*                                                                         *)
(* A parsed value is a record [kind, text, items]: kind "str" with its     *)
(* text; kind "null", "true" or "false"; kind "dict" with items a sequence *)
(* of <<key, value>> in insertion order; kind "list" with items a sequence *)
(* of <<NoKey, value>>.  Numbers, escapes and non-string keys are not in   *)
(* the replies drawn, and the parsers reject them.                         *)
(***************************************************************************)
\* the grave accent, U+0060, which a TLA+ string cannot hold
Backtick == "GRAVE"
Backticks == <<Backtick, Backtick, Backtick>>
JsonTag == <<"j","s","o","n">>

StartsWith(text, pat) == Len(text) >= Len(pat) /\ SubSeq(text, 1, Len(pat)) = pat
EndsWith(text, pat) ==
    Len(text) >= Len(pat) /\ SubSeq(text, Len(text) - Len(pat) + 1, Len(text)) = pat

\* str.rstrip()
RStrip(s) ==
    LET nonsp == {i \in 1..Len(s) : ~IsSpace(s[i])}
    IN  IF nonsp = {} THEN <<>>
        ELSE SubSeq(s, 1, CHOOSE i \in nonsp : \A j \in nonsp : j <= i)

\* line 168: an opening fence (three grave accents and an optional json tag,
\* in any case) and the whitespace around it, removed from the start
RemoveOpeningFence(text) ==
    LET a == 1 + RunLen(text, 1, SpaceChars)
        b == a + 3
        c == IF Lower(SubSeq(text, b, Min(b + 3, Len(text)))) = JsonTag THEN b + 4 ELSE b
        d == c + RunLen(text, c, SpaceChars)
    IN  IF SubSeq(text, a, Min(a + 2, Len(text))) = Backticks
        THEN SubSeq(text, d, Len(text))
        ELSE text

\* line 169: a closing fence and the whitespace around it, removed from the
\* end; the pattern is anchored by $, so its only match ends the text
RemoveClosingFence(text) ==
    LET body == RStrip(text)
    IN  IF EndsWith(body, Backticks)
        THEN RStrip(SubSeq(body, 1, Len(body) - 3))
        ELSE text

\* lines 171-172: a text that starts and ends with the same quote character
\* loses both, and is stripped again
RemoveSurroundingQuotes(text) ==
    IF \E q \in {"\"", "'"} : StartsWith(text, <<q>>) /\ EndsWith(text, <<q>>)
    THEN Strip(SubSeq(text, 2, Len(text) - 1))
    ELSE text

\* str.find / str.rfind of one character: 0 when it is absent
Find(text, c) ==
    LET at == {i \in 1..Len(text) : text[i] = c}
    IN  IF at = {} THEN 0 ELSE CHOOSE i \in at : \A j \in at : i <= j
RFind(text, c) ==
    LET at == {i \in 1..Len(text) : text[i] = c}
    IN  IF at = {} THEN 0 ELSE CHOOSE i \in at : \A j \in at : j <= i

\* lines 173-177: text[first:last+1], first = text.find of the opening brace,
\* last = text.rfind of the closing brace
OuterBraceSpan(text) ==
    LET first == Find(text, "{")
        last == RFind(text, "}")
    IN  IF first # 0 /\ last # 0 /\ last > first THEN SubSeq(text, first, last) ELSE text

\* _extract_json_text(raw_text), raw_text a string
_extract_json_text(raw_text) ==
    OuterBraceSpan(RemoveSurroundingQuotes(RemoveClosingFence(RemoveOpeningFence(Strip(raw_text)))))

NoItems == <<>>
StrValue(text) == [kind |-> "str", text |-> text, items |-> NoItems]
WordValue(kind) == [kind |-> kind, text |-> <<>>, items |-> NoItems]
DictValue(items) == [kind |-> "dict", text |-> <<>>, items |-> items]
ListValue(items) == [kind |-> "list", text |-> <<>>, items |-> items]
NoKey == WordValue("index")

\* a key set in a dict under construction: a repeated key keeps its place
\* and takes the new value
RECURSIVE Put(_, _, _)
Put(items, key, value) ==
    IF items = <<>> THEN << <<key, value>> >>
    ELSE IF Head(items)[1] = key THEN << <<key, value>> >> \o Tail(items)
    ELSE <<Head(items)>> \o Put(Tail(items), key, value)

\* the syntax json.loads reads, and the syntax ast.literal_eval reads
JsonSyntax ==
    [quotes |-> {"\""},
     words |-> { <<<<"n","u","l","l">>, "null">>, <<<<"t","r","u","e">>, "true">>,
                 <<<<"f","a","l","s","e">>, "false">> },
     unquoted |-> {"\\", "\n", "\r", "\t"},
     trailing_comma |-> FALSE]
LiteralSyntax ==
    [quotes |-> {"\"", "'"},
     words |-> { <<<<"N","o","n","e">>, "null">>, <<<<"T","r","u","e">>, "true">>,
                 <<<<"F","a","l","s","e">>, "false">> },
     unquoted |-> {"\\", "\n", "\r"},
     trailing_comma |-> TRUE]

ParseFailed == [ok |-> FALSE, value |-> WordValue("null"), next |-> 0]
Parsed(value, next) == [ok |-> TRUE, value |-> value, next |-> next]

SkipSpace(text, i) == i + RunLen(text, i, SpaceChars)

\* a quoted string that starts at text[i]
ParseString(text, i, syntax) ==
    LET closing == {j \in (i + 1)..Len(text) : text[j] = text[i]}
        j == CHOOSE c \in closing : \A d \in closing : c <= d
    IN  IF i > Len(text) \/ text[i] \notin syntax.quotes \/ closing = {} THEN ParseFailed
        ELSE IF \E m \in (i + 1)..(j - 1) : text[m] \in syntax.unquoted THEN ParseFailed
        ELSE Parsed(StrValue(SubSeq(text, i + 1, j - 1)), j + 1)

\* null, true, false (None, True, False) at text[i]
ParseWord(text, i, syntax) ==
    LET n == RunLen(text, i, WordChars)
        word == SubSeq(text, i, i + n - 1)
        known == {w \in syntax.words : w[1] = word}
    IN  IF known = {} THEN ParseFailed
        ELSE Parsed(WordValue((CHOOSE w \in known : TRUE)[2]), i + n)

RECURSIVE ParseValue(_, _, _)
RECURSIVE ParseMembers(_, _, _, _, _)
RECURSIVE ParseElements(_, _, _, _, _)

\* the members of a dict from text[i], which follows "{" or ","
ParseMembers(text, i, syntax, items, may_close) ==
    IF i > Len(text) THEN ParseFailed
    ELSE IF text[i] = "}" THEN (IF may_close THEN Parsed(DictValue(items), i + 1) ELSE ParseFailed)
    ELSE LET key == ParseString(text, i, syntax)
             colon == SkipSpace(text, key.next)
             value == ParseValue(text, SkipSpace(text, colon + 1), syntax)
             after == SkipSpace(text, value.next)
         IN  IF ~key.ok \/ colon > Len(text) \/ text[colon] # ":" THEN ParseFailed
             ELSE IF ~value.ok \/ after > Len(text) THEN ParseFailed
             ELSE IF text[after] = "}"
                  THEN Parsed(DictValue(Put(items, key.value, value.value)), after + 1)
             ELSE IF text[after] = ","
                  THEN ParseMembers(text, SkipSpace(text, after + 1), syntax,
                                    Put(items, key.value, value.value), syntax.trailing_comma)
             ELSE ParseFailed

\* the elements of a list from text[i], which follows "[" or ","
ParseElements(text, i, syntax, items, may_close) ==
    IF i > Len(text) THEN ParseFailed
    ELSE IF text[i] = "]" THEN (IF may_close THEN Parsed(ListValue(items), i + 1) ELSE ParseFailed)
    ELSE LET value == ParseValue(text, i, syntax)
             after == SkipSpace(text, value.next)
         IN  IF ~value.ok \/ after > Len(text) THEN ParseFailed
             ELSE IF text[after] = "]"
                  THEN Parsed(ListValue(Append(items, <<NoKey, value.value>>)), after + 1)
             ELSE IF text[after] = ","
                  THEN ParseElements(text, SkipSpace(text, after + 1), syntax,
                                     Append(items, <<NoKey, value.value>>), syntax.trailing_comma)
             ELSE ParseFailed

ParseValue(text, i, syntax) ==
    IF i > Len(text) THEN ParseFailed
    ELSE IF text[i] \in {"\"", "'"} THEN ParseString(text, i, syntax)
    ELSE IF text[i] = "{" THEN ParseMembers(text, SkipSpace(text, i + 1), syntax, <<>>, TRUE)
    ELSE IF text[i] = "[" THEN ParseElements(text, SkipSpace(text, i + 1), syntax, <<>>, TRUE)
    ELSE ParseWord(text, i, syntax)

\* a parse that read a value counts when nothing but whitespace follows it
WholeText(text, parsed) ==
    IF parsed.ok /\ SkipSpace(text, parsed.next) = Len(text) + 1
    THEN [ok |-> TRUE, value |-> parsed.value]
    ELSE [ok |-> FALSE, value |-> WordValue("null")]

\* one parser applied to the whole text: [ok, value]
ParseText(text, syntax) == WholeText(text, ParseValue(text, SkipSpace(text, 1), syntax))

\* json.loads(json_like)
json_loads(json_like) == ParseText(json_like, JsonSyntax)

\* ast.literal_eval(json_like), kept when it is a dict or a list (190-192)
DictOrList(parsed) ==
    IF parsed.ok /\ parsed.value.kind \in {"dict", "list"} THEN parsed
    ELSE [ok |-> FALSE, value |-> WordValue("null")]
literal_eval(json_like) == DictOrList(ParseText(json_like, LiteralSyntax))

\* line 196: every single quote replaced by a double quote
ReplaceQuotes(json_like) ==
    [i \in 1..Len(json_like) |-> IF json_like[i] = "'" THEN "\"" ELSE json_like[i]]

\* the literal parser tried before the JSON parser, which C17 must tell apart
\* from Parsers
ParsersLiteralFirst == <<"literal", "json", "fixed">>

\* the three parsers of _parse_to_dict, in the order they are tried
Parsers == <<"json", "literal", "fixed">>
RunParser(name, json_like) ==
    CASE name = "json" -> json_loads(json_like)
      [] name = "literal" -> literal_eval(json_like)
      [] name = "fixed" -> json_loads(ReplaceQuotes(json_like))

\* _parse_to_dict(json_like): [ok, value, by]; ok FALSE is the ValueError of
\* line 201, by the parser that succeeded
FirstSuccess(parsers, results) ==
    LET succeed == {n \in 1..Len(parsers) : results[n].ok}
        first == CHOOSE n \in succeed : \A m \in succeed : n <= m
    IN  IF succeed = {} THEN [ok |-> FALSE, value |-> WordValue("null"), by |-> "none"]
        ELSE [ok |-> TRUE, value |-> results[first].value, by |-> parsers[first]]
_parse_to_dict(json_like) ==
    FirstSuccess(Parsers, [n \in 1..Len(Parsers) |-> RunParser(Parsers[n], json_like)])

\* key in d and d.get(key), for a parsed dict d and a key given as text
Has(value, key) ==
    value.kind = "dict" /\ \E n \in 1..Len(value.items) : value.items[n][1] = StrValue(key)
Get(value, key) ==
    IF Has(value, key)
    THEN value.items[CHOOSE n \in 1..Len(value.items) : value.items[n][1] = StrValue(key)][2]
    ELSE WordValue("null")

(***************************************************************************)
(* SpecParse: _extract_json_text, then _parse_to_dict, applied to every     *)
(* model reply made of an opening, a body and a closing.                   *)
(***************************************************************************)
\* what a model reply opens with: nothing, a code fence, a sentence, a quote
ReplyPrefixes ==
    { <<>>,
      <<Backtick,Backtick,Backtick,"j","s","o","n","\n">>,
      <<Backtick,Backtick,Backtick,"\n">>,
      <<" ",Backtick,Backtick,Backtick,"J","S","O","N"," ">>,
      <<Backtick,Backtick,Backtick,"J","s","o","n">>,
      <<"H","e","r","e"," ","i","s"," ","t","h","e"," ","p","l","a","n",":"," ">>,
      <<"'">>,
      <<"\"">> }
\* the body of a model reply
ReplyBodies ==
    { <<"{","\"","t","a","b","l","e","_","t","o","_","q","u","e","r","y","\"",":"," ","\"","g","r","a","d","e","s","\"","}">>,
      <<"{","'","t","a","b","l","e","_","t","o","_","q","u","e","r","y","'",":"," ","'","g","r","a","d","e","s","'","}">>,
      <<"{","\"","t","a","b","l","e","_","t","o","_","q","u","e","r","y","\"",":"," ","'","g","r","a","d","e","s","'","}">>,
      <<"{","\"","c","o","u","r","s","e","_","n","a","m","e","\"",":"," ","n","u","l","l",","," ","\"","t","a","b","l","e","_","t","o","_","q","u","e","r","y","\"",":"," ","\"","g","r","a","d","e","s","\"","}">>,
      <<"{","'","c","o","u","r","s","e","_","n","a","m","e","'",":"," ","N","o","n","e",","," ","'","t","a","b","l","e","_","t","o","_","q","u","e","r","y","'",":"," ","'","g","r","a","d","e","s","'","}">>,
      <<"{","'","c","o","u","r","s","e","_","n","a","m","e","'",":"," ","n","u","l","l",","," ","'","t","a","b","l","e","_","t","o","_","q","u","e","r","y","'",":"," ","'","g","r","a","d","e","s","'","}">>,
      <<"{","'","c","o","u","r","s","e","_","n","a","m","e","'",":"," ","N","o","n","e",","," ","'","i","t","e","m","_","n","a","m","e","'",":"," ","n","u","l","l","}">>,
      <<"{","\"","f","i","l","t","e","r","s","\"",":"," ","{","}",","," ","\"","t","a","b","l","e","_","t","o","_","q","u","e","r","y","\"",":"," ","\"","u","s","e","r","s","\"",","," ","\"","r","e","q","u","i","r","e","d","_","c","o","l","u","m","n","s","\"",":"," ","[","\"","n","a","m","e","\"",","," ","\"","l","o","g","i","n","_","i","d","\"","]","}">>,
      <<"{","\"","t","a","b","l","e","_","t","o","_","q","u","e","r","y","\"",":"," ","\"","g","r","a","d","e","s","\"",",","}">>,
      <<"{","t","a","b","l","e","_","t","o","_","q","u","e","r","y",":"," ","g","r","a","d","e","s","}">>,
      <<"{","\"","i","t","e","m","_","n","a","m","e","\"",":"," ","\"","i","t","'","s","\"",","," ","\"","t","a","b","l","e","_","t","o","_","q","u","e","r","y","\"",":"," ","\"","c","o","u","r","s","e","s","\"","}">>,
      <<"{","'","i","t","e","m","_","n","a","m","e","'",":"," ","\"","i","t","'","s","\"","}">>,
      <<"{","\"","t","a","b","l","e","_","t","o","_","q","u","e","r","y","\"",":","\n"," "," ","\"","g","r","a","d","e","s","\"","\n","}">>,
      <<"{","\"","t","a","b","l","e","_","t","o","_","q","u","e","r","y","\"",":"," ","\"","u","s","e","r","s","\"",","," ","\"","t","a","b","l","e","_","t","o","_","q","u","e","r","y","\"",":"," ","\"","g","r","a","d","e","s","\"","}">>,
      <<"{","\"","e","r","r","o","r","\"",":"," ","\"","n","o"," ","t","a","b","l","e","\"","}">>,
      <<"[","\"","g","r","a","d","e","s","\"","]">>,
      <<"'","g","r","a","d","e","s","'">>,
      <<"g","r","a","d","e","s">>,
      <<"n","u","l","l">>,
      <<"N","o","n","e">>,
      <<>> }
\* what a model reply closes with
ReplySuffixes ==
    { <<>>,
      <<"\n",Backtick,Backtick,Backtick>>,
      <<" ",Backtick,Backtick,Backtick," ","\n">>,
      <<" ","(","s","e","e"," ","{","f","i","l","t","e","r","s","}",")">>,
      <<" ","}">>,
      <<"'">>,
      <<"\"">> }

\* the openings and closings that are code fences
OpeningFences ==
    {p \in ReplyPrefixes : EndsWith(RStrip(p), Backticks) \/ EndsWith(RStrip(Lower(p)), Backticks \o JsonTag)}
ClosingFences == {s \in ReplySuffixes : EndsWith(RStrip(s), Backticks)}

\* the operation of the planner's text handling that ran last
ParseRecord(op, prefix, body, suffix, cleaned, parsed) ==
    [op |-> op, prefix |-> prefix, body |-> body, suffix |-> suffix,
     raw_text |-> prefix \o body \o suffix, cleaned |-> cleaned, parsed |-> parsed]

NotParsed == [ok |-> FALSE, value |-> WordValue("null"), by |-> "none"]

InitParse ==
    /\ EMBEDDINGS_CACHE = "None"
    /\ DB_CACHE = EmptyCache
    /\ QUERY_CACHE = EmptyCache
    /\ RESULT_CACHE = EmptyCache
    /\ disk = EmptyCache
    /\ ncalls = 0
    /\ InitWeb
    /\ \E prefix \in ReplyPrefixes, body \in ReplyBodies, suffix \in ReplySuffixes :
           call = ParseRecord("init", prefix, body, suffix, <<>>, NotParsed)

\* cleaned = _extract_json_text(raw_reply)
ExtractJsonText ==
    /\ ncalls = 0
    /\ ncalls' = 1
    /\ call' = [call EXCEPT !.op = "_extract_json_text",
                            !.cleaned = _extract_json_text(call.raw_text)]
    /\ UNCHANGED <<EMBEDDINGS_CACHE, DB_CACHE, QUERY_CACHE, RESULT_CACHE, disk>>
    /\ UNCHANGED web_vars

\* parsed = _parse_to_dict(cleaned)
ParseToDict ==
    /\ ncalls = 1
    /\ ncalls' = 2
    /\ call' = [call EXCEPT !.op = "_parse_to_dict", !.parsed = _parse_to_dict(call.cleaned)]
    /\ UNCHANGED <<EMBEDDINGS_CACHE, DB_CACHE, QUERY_CACHE, RESULT_CACHE, disk>>
    /\ UNCHANGED web_vars

NextParse == ExtractJsonText \/ ParseToDict

SpecParse == InitParse /\ [][NextParse]_vars

(***************************************************************************)
(* The Query Planner and the Answer Synthesizer (llm.py 68-98, 204-299).   *)
(*                                                                         *)
(* A fixed message is one element of a text; what a format string inserts  *)
(* is concatenated to it.                                                  *)
(***************************************************************************)
\* lines 68-88: the stripped key of the first row, or the RuntimeError
NotConfigured == <<"OpenRouter API key is not configured in data/user_db/user_settings.csv.">>
_get_openrouter_api_key(settings) ==
    LET key_from_store == IF settings.exists THEN Strip(settings.row.openrouter_api_key) ELSE <<>>
    IN  [ok |-> key_from_store # <<>>, key |-> key_from_store]

\* lines 91-98: the headers, or the RuntimeError passed on
_build_headers(settings) ==
    LET api_key == _get_openrouter_api_key(settings)
    IN  [ok |-> api_key.ok, Authorization |-> <<"Bearer ">> \o api_key.key]

\* what the LLM capability does with one request: requests.post raises, or
\* answers with a status and a text; the body of a 200 answer is
\* "unreadable" (resp.json() raises), a "completion" whose message content
\* is reply (None when reply.given is FALSE), a dict with a "response" key
\* that holds reply, a dict with only an "error" key, or a "list"
Answer(post, status, body, reply) ==
    [post |-> post, status |-> status, text |-> <<"<resp.text>">>, body |-> body, reply |-> reply]
NoReply == [given |-> FALSE, text |-> <<>>]
Reply(text) == [given |-> TRUE, text |-> text]

\* str(content) of the body {"error": {"message": "busy"}}
ErrorBodyStr == <<"{","'","e","r","r","o","r","'",":"," ","{","'","m","e","s","s","a","g","e","'",":"," ","'","b","u","s","y","'","}","}">>
\* str(content) of the body {"response": ""}
EmptyResponseStr == <<"{","'","r","e","s","p","o","n","s","e","'",":"," ","'","'","}">>

\* an outcome of a call: raised, or returned
Raised(exception, requests) ==
    [raised |-> TRUE, exception |-> exception, plan |-> NoneValue, given |-> FALSE,
     text |-> <<>>, requests |-> requests]
ReturnedPlan(plan, requests) ==
    [raised |-> FALSE, exception |-> "", plan |-> plan, given |-> FALSE, text |-> <<>>,
     requests |-> requests]
ReturnedText(reply, requests) ==
    [raised |-> FALSE, exception |-> "", plan |-> NoneValue, given |-> reply.given,
     text |-> reply.text, requests |-> requests]

ErrorKey == <<"e","r","r","o","r">>
TableKey == <<"t","a","b","l","e","_","t","o","_","q","u","e","r","y">>
\* {"error": message}
ErrorPlan(message) == DictValue(<< <<StrValue(ErrorKey), StrValue(message)>> >>)
\* f"API Error {resp.status_code}: {resp.text}"
ApiError(answer) == <<"API Error ">> \o DecStr(answer.status) \o <<": ">> \o answer.text

\* lines 225-228: raw_reply read from the decoded body; [raised, reply]
raw_reply_of(answer) ==
    CASE answer.body = "completion" -> [raised |-> FALSE, reply |-> answer.reply]
      [] answer.body = "response" ->
             [raised |-> FALSE,
              reply |-> IF answer.reply.given /\ answer.reply.text # <<>> THEN answer.reply
                        ELSE Reply(EmptyResponseStr)]
      [] answer.body = "error" -> [raised |-> FALSE, reply |-> Reply(ErrorBodyStr)]
      [] answer.body = "list" -> [raised |-> TRUE, reply |-> NoReply]

\* lines 230-240: the Plan parsed from raw_reply, or the dict that tells the
\* parse failed
PlanOrFailure(raw_reply, cleaned, parsed) ==
    LET value(reply) == IF reply.given THEN StrValue(reply.text) ELSE NoneValue
        failure(exception, cleaned_attempt) ==
            DictValue(<< <<StrValue(ErrorKey), StrValue(<<"Failed to parse model output as JSON">>)>>,
                         <<StrValue(<<"exception">>), StrValue(exception)>>,
                         <<StrValue(<<"raw_reply">>), value(raw_reply)>>,
                         <<StrValue(<<"cleaned_attempt">>), value(cleaned_attempt)>> >>)
    IN  IF ~raw_reply.given
        THEN failure(<<"'NoneType' object has no attribute 'strip'">>, NoReply)
        ELSE IF ~parsed.ok
        THEN failure(<<"Failed to parse text as JSON or Python literal">>, Reply(cleaned))
        ELSE parsed.value
CleanedPlan(raw_reply, cleaned) == PlanOrFailure(raw_reply, cleaned, _parse_to_dict(cleaned))
ParsedPlan(raw_reply) == CleanedPlan(raw_reply, _extract_json_text(raw_reply.text))

\* query_to_structured(user_query), lines 204-240
query_to_structured(user_query, settings, answer) ==
    LET headers == _build_headers(settings)
        raw_reply == raw_reply_of(answer)
    IN  IF ~headers.ok THEN ReturnedPlan(ErrorPlan(NotConfigured), 0)
        ELSE IF answer.post = "raise" THEN Raised("ConnectionError", 1)
        ELSE IF answer.status # 200 THEN ReturnedPlan(ErrorPlan(ApiError(answer)), 1)
        ELSE IF answer.body = "unreadable" THEN Raised("JSONDecodeError", 1)
        ELSE IF raw_reply.raised THEN Raised("AttributeError", 1)
        ELSE ReturnedPlan(ParsedPlan(raw_reply.reply), 1)

\* the parameters of generate_user_response_from_file (line 243)
SynthesizerParameters == {"user_query", "file_path"}

\* generate_user_response_from_file called with the keywords given, lines
\* 243-299
generate_user_response_from_file(keywords, settings, answer) ==
    LET headers == _build_headers(settings)
        reply == raw_reply_of(answer)
    IN  IF ~(keywords \subseteq SynthesizerParameters) THEN Raised("TypeError", 0)
        ELSE IF ~headers.ok THEN ReturnedText(Reply(<<"Configuration error: ">> \o NotConfigured), 0)
        ELSE IF answer.post = "raise" THEN Raised("ConnectionError", 1)
        ELSE IF answer.status # 200 THEN ReturnedText(Reply(ApiError(answer)), 1)
        ELSE IF answer.body = "unreadable" THEN Raised("JSONDecodeError", 1)
        ELSE IF reply.raised THEN Raised("AttributeError", 1)
        ELSE ReturnedText(reply.reply, 1)

(***************************************************************************)
(* The /search endpoint (fast_api.py 58-61, 174-178, 249-281) and the chat *)
(* assistant endpoint (chat_router.py 53-117, 201-217; chat_store.py       *)
(* 97-125; user_store.py 68-77, 110-118).                                  *)
(***************************************************************************)
\* The states of the stores and the answers of the LLM capability that the
\* endpoints are run against.
SomeKey == <<"s","k","-","1">>
BlankKey == <<" ">>
\* every key set; the OpenRouter key empty; the OpenRouter key blank; the
\* Canvas key empty; the starter file; no file
SettingsFiles ==
    { SettingsFile(UserRow(SomeKey, SomeKey, SomeKey, SomeKey, SomeKey)),
      SettingsFile(UserRow(SomeKey, SomeKey, SomeKey, SomeKey, <<>>)),
      SettingsFile(UserRow(SomeKey, SomeKey, SomeKey, SomeKey, BlankKey)),
      SettingsFile(UserRow(<<>>, SomeKey, SomeKey, SomeKey, SomeKey)),
      SettingsFile(DefaultRow),
      NoSettingsFile }

ChatRow(ID, session_id, sender, message) ==
    [ID |-> ID, session_id |-> session_id, sender |-> sender, message |-> message]
SessionIds == {1, 2}
\* no session; session 1 without messages; with a question; with a question
\* that has been answered; with a question after an answer
ChatDbs ==
    { NoChats,
      [sessions |-> {1}, messages |-> <<>>],
      [sessions |-> {1}, messages |-> <<ChatRow(1, 1, "user", QueryGrades)>>],
      [sessions |-> {1, 2}, messages |-> <<ChatRow(1, 2, "user", QueryCode)>>],
      [sessions |-> {1}, messages |-> <<ChatRow(1, 1, "user", QueryGrades),
                                        ChatRow(2, 1, "assistant", <<"B+">>)>>] }

PlanGrades == <<"{","\"">> \o TableKey \o <<"\"",":"," ","\"","g","r","a","d","e","s","\"","}">>
PlanUsers == <<"{","'">> \o TableKey \o <<"'",":"," ","'","u","s","e","r","s","'","}">>
PlanNoTable == <<"{","\"">> \o TableKey \o <<"\"",":"," ","n","u","l","l","}">>
PlanTables == <<"{","\"">> \o TableKey \o <<"\"",":"," ","[","\"","g","r","a","d","e","s","\"","]","}">>
PlanError == <<"{","\"">> \o ErrorKey \o <<"\"",":"," ","\"","n","o"," ","t","a","b","l","e","\"","}">>
\* the replies of the planner's model: Plans, bare and fenced; a Plan with an
\* error; a Plan without a table; a refusal; null; a list
PlannerReplies ==
    { PlanGrades, Backticks \o JsonTag \o <<"\n">> \o PlanGrades \o <<"\n">> \o Backticks,
      PlanUsers, PlanNoTable, PlanTables, PlanError, <<"{","}">>,
      <<"I"," ","c","a","n","n","o","t",".">>, <<"n","u","l","l">>,
      <<"[","\"","g","r","a","d","e","s","\"","]">>, <<>> }

\* what the capability does that is no completion with a reply
Failures ==
    { Answer("raise", 0, "none", NoReply),
      Answer("ok", 401, "none", NoReply),
      Answer("ok", 500, "none", NoReply),
      Answer("ok", 200, "unreadable", NoReply),
      Answer("ok", 200, "list", NoReply),
      Answer("ok", 200, "error", NoReply),
      Answer("ok", 200, "response", Reply(<<>>)),
      Answer("ok", 200, "completion", NoReply) }
PlannerAnswers ==
    Failures \cup {Answer("ok", 200, "completion", Reply(r)) : r \in PlannerReplies}
                \cup {Answer("ok", 200, "response", Reply(PlanGrades))}
SynthesizerAnswers ==
    Failures \cup {Answer("ok", 200, "completion", Reply(r)) : r \in {<<>>, <<"You have a B+.">>}}

\* the retriever's environment: all well, or the index search fails
WebEnvs == {EnvOk, [EnvOk EXCEPT !.search = FALSE]}

REQUIRED_API_KEY_FIELDS ==
    <<"canvas_key", "gemini_key", "canvas_base_url", "elevenlabs_api_key", "openrouter_api_key">>

\* user_store.get_user_settings: the first row, the file created when absent
get_user_settings(settings) == IF settings.exists THEN settings ELSE SettingsFile(DefaultRow)

\* fast_api._missing_api_keys: the required fields whose value is falsy
_missing_api_keys(settings) ==
    SelectSeq(REQUIRED_API_KEY_FIELDS, LAMBDA field : get_user_settings(settings).row[field] = <<>>)

\* ", ".join(missing)
RECURSIVE JoinFields(_)
JoinFields(fields) ==
    IF fields = <<>> THEN <<>>
    ELSE IF Len(fields) = 1 THEN <<Head(fields)>>
    ELSE <<Head(fields), ", ">> \o JoinFields(Tail(fields))

\* bool(value)
Truthy(value) ==
    CASE value.kind = "str" -> value.text # <<>>
      [] value.kind \in {"dict", "list"} -> value.items # <<>>
      [] value.kind = "true" -> TRUE
      [] OTHER -> FALSE

\* the requests one call posted
Posted(by, requests) == IF requests = 1 THEN <<by>> ELSE <<>>

\* the record of a call that raised or returned out
Response(op, query, out, error, called) ==
    [op |-> op, query |-> query, raised |-> out.raised, exception |-> out.exception,
     plan |-> out.plan, given |-> out.given, text |-> out.text, error |-> error,
     called |-> called]

\* "error" in structured (fast_api.py 267): [raised, holds]
ErrorIn(structured) ==
    CASE structured.kind = "dict" -> [raised |-> FALSE, holds |-> Has(structured, ErrorKey)]
      [] structured.kind = "list" ->
             [raised |-> FALSE,
              holds |-> \E n \in 1..Len(structured.items) : structured.items[n][2] = StrValue(ErrorKey)]
      [] structured.kind = "str" -> [raised |-> FALSE, holds |-> Contains(structured.text, ErrorKey)]
      [] OTHER -> [raised |-> TRUE, holds |-> FALSE]

\* structured["table_to_query"] + ".csv" (fast_api.py 271): the exception
\* raised, or "" with the table
TableOf(structured) ==
    IF structured.kind # "dict" THEN [exception |-> "TypeError", table |-> <<>>]
    ELSE IF ~Has(structured, TableKey) THEN [exception |-> "KeyError", table |-> <<>>]
    ELSE IF Get(structured, TableKey).kind # "str" THEN [exception |-> "TypeError", table |-> <<>>]
    ELSE [exception |-> "", table |-> Get(structured, TableKey).text]

\* the default k of perform_search (vector.py 474)
DefaultK == 10

\* the retriever as the endpoints call it: perform_search(query=query,
\* csv_filename=table + ".csv", db_name=table)
Retrieve(query, table, env) ==
    perform_search(query, DefaultK, CsvOf(table), OutVectorstore, FALSE, table, NoMinScore, env)

\* the retriever is not called
NoRetrieve ==
    /\ ncalls' = ncalls + 1
    /\ UNCHANGED <<EMBEDDINGS_CACHE, DB_CACHE, QUERY_CACHE, RESULT_CACHE, disk, call>>

\* fast_api._ensure_api_key_watch (lines 174-178): the watcher task
\* afterwards; a task just created is "running" its first check
_ensure_api_key_watch(task) == IF task \in {"None", "done"} THEN "running" ELSE task

\* GET /search (fast_api.py 249-281); the retriever's environment and the
\* synthesizer's answer are drawn where the handler reaches them
search(query, planner_answer) ==
    \E settings \in {get_user_settings(user_settings)}, missing \in {_missing_api_keys(user_settings)} :
    \E structured \in {query_to_structured(query, settings, planner_answer)} :
    \E has_error \in {ErrorIn(structured.plan)}, table \in {TableOf(structured.plan)},
       planned \in {Posted("planner", structured.requests)} :
        /\ user_settings' = settings
        /\ UNCHANGED <<chat_db, background_vars>>
        /\ IF missing # <<>>
           THEN /\ API_KEYS_READY' = FALSE
                /\ API_KEY_WATCH_TASK' = _ensure_api_key_watch(API_KEY_WATCH_TASK)
                /\ NoRetrieve
                /\ UNCHANGED llm_requests
                /\ response' = Response("search", query,
                                   ReturnedText(Reply(<<"Required API keys are missing. Please add: ">>
                                                      \o JoinFields(missing)), 0),
                                   <<"missing_api_keys">>, <<>>)
           ELSE /\ UNCHANGED <<API_KEYS_READY, API_KEY_WATCH_TASK>>
                /\ IF structured.raised
                   THEN /\ NoRetrieve
                        /\ llm_requests' = llm_requests \o planned
                        /\ response' = Response("search", query, structured, <<>>, <<"planner">>)
                   ELSE IF has_error.raised
                   THEN /\ NoRetrieve
                        /\ llm_requests' = llm_requests \o planned
                        /\ response' = Response("search", query, Raised("TypeError", 0), <<>>,
                                                <<"planner">>)
                   ELSE IF has_error.holds
                   THEN /\ NoRetrieve
                        /\ llm_requests' = llm_requests \o planned
                        /\ response' = Response("search", query,
                                           ReturnedText(Reply(<<"Failed to generate structured query to Vector DB.">>), 0),
                                           <<"<structured_query_to_DB['error']>">>, <<"planner">>)
                   ELSE IF table.exception # ""
                   THEN /\ NoRetrieve
                        /\ llm_requests' = llm_requests \o planned
                        /\ response' = Response("search", query, Raised(table.exception, 0), <<>>,
                                                <<"planner">>)
                   ELSE \E env \in WebEnvs :
                        /\ Retrieve(query, table.table, env)
                        /\ IF ~call'.ok \/ call'.ret = <<>>
                           THEN /\ llm_requests' = llm_requests \o planned
                                /\ response' = Response("search", query,
                                                   ReturnedText(Reply(<<"No relevant documents found in the database.">>), 0),
                                                   <<>>, <<"planner", "retriever">>)
                           ELSE \E synthesizer_answer \in SynthesizerAnswers :
                                \E answered \in {generate_user_response_from_file(
                                                     {"user_query", "file_path"}, settings,
                                                     synthesizer_answer)} :
                                /\ llm_requests' = llm_requests \o planned
                                                       \o Posted("synthesizer", answered.requests)
                                /\ response' = Response("search", query, answered, <<>>,
                                                   <<"planner", "retriever", "synthesizer">>)

\* chat_store.create_chat_message (97-114): a row appended with the next ID
NextId(messages) == 1 + Len(messages)
create_chat_message(db, session_id, sender, message) ==
    [db EXCEPT !.messages = Append(@, [ID |-> NextId(@), session_id |-> session_id,
                                       sender |-> sender, message |-> message])]

\* chat_store.list_chat_messages(session_id)
list_chat_messages(db, session_id) ==
    SelectSeq(db.messages, LAMBDA row : row.session_id = session_id)

\* chat_router._latest_user_message (53-59)
_latest_user_message(db, session_id) ==
    LET rows == list_chat_messages(db, session_id)
        by_user == {n \in 1..Len(rows) : rows[n].sender = "user"}
    IN  IF by_user = {} THEN <<>>
        ELSE rows[CHOOSE n \in by_user : \A m \in by_user : m <= n].message

\* str(exc) of an exception, in a message
StrExc(out) == <<out.exception>>

\* "\n\n".join(doc.page_content for doc, _score in search_results)
RECURSIVE JoinContents(_)
JoinContents(search_results) ==
    IF search_results = <<>> THEN <<>>
    ELSE IF Len(search_results) = 1 THEN Head(search_results)[1].page_content
    ELSE Head(search_results)[1].page_content \o <<"\n", "\n">> \o JoinContents(Tail(search_results))

\* the call of line 72 without its try/except, which C20 must tell apart
\* from planner_caught
planner_uncaught(structured) ==
    [done |-> structured.raised, raised |-> structured.raised, text |-> <<>>]

\* chat_router 71-74: the planner called under try/except Exception
planner_caught(structured) ==
    IF structured.raised
    THEN [done |-> TRUE, raised |-> FALSE,
          text |-> <<"I'm having trouble interpreting the question (">> \o StrExc(structured) \o <<").">>]
    ELSE [done |-> FALSE, raised |-> FALSE, text |-> <<>>]

\* chat_router 76-86: the reply when the Plan names no table, else done is
\* FALSE and table the table named
plan_reply(structured) ==
    LET detail == Get(structured, ErrorKey)
        table == Get(structured, TableKey)
    IN  IF structured.kind # "dict"
        THEN [done |-> TRUE, text |-> <<"I couldn't understand that request just yet.">>, table |-> table]
        ELSE IF Has(structured, ErrorKey)
        THEN [done |-> TRUE,
              text |-> IF detail.kind = "null"
                       THEN <<"I couldn't understand that request just yet.">>
                       ELSE <<"I couldn't process the request: ">> \o <<"<detail>">>,
              table |-> table]
        ELSE IF ~Truthy(table)
        THEN [done |-> TRUE,
              text |-> <<"Could you share a little more so I can look up the right information?">>,
              table |-> table]
        ELSE [done |-> FALSE, text |-> <<>>, table |-> table]

\* chat_router 108-117: the synthesizer called with conversation_history,
\* under try/except Exception
synthesizer_reply(answered) ==
    IF answered.raised
    THEN <<"I found some notes but couldn't craft a response (">> \o StrExc(answered) \o <<").">>
    ELSE IF answered.given /\ answered.text # <<>> THEN answered.text
    ELSE <<"Let me know how else I can help!">>

\* whether _collect_relevant_context reaches perform_search and
\* perform_search gets past vector.py 509 (a Path joined with the table)
retriever_called(structured) ==
    /\ ~planner_caught(structured).done
    /\ ~plan_reply(structured.plan).done
    /\ plan_reply(structured.plan).table.kind = "str"

\* chat_router._collect_relevant_context(user_query, conversation_history),
\* lines 69-117, given what the planner, the retriever and the synthesizer
\* gave: [raised, text, called, posted]
_collect_relevant_context(structured, search_results, answered) ==
    LET caught == planner_caught(structured)
        planned == plan_reply(structured.plan)
        posted == Posted("planner", structured.requests)
        Out(raised, text, called, requests) ==
            [raised |-> raised, text |-> text, called |-> called, posted |-> requests]
    IN  IF caught.done THEN Out(caught.raised, caught.text, <<"planner">>, posted)
        ELSE IF planned.done THEN Out(FALSE, planned.text, <<"planner">>, posted)
        ELSE IF planned.table.kind # "str"
        THEN Out(FALSE, <<"I ran into an issue searching the knowledge base (">>
                            \o <<"TypeError">> \o <<").">>,
                 <<"planner", "retriever">>, posted)
        ELSE IF ~search_results.ok \/ search_results.ret = <<>>
        THEN Out(FALSE, <<"I couldn't find anything in your records that matches that just yet, ",
                          "but I'll keep looking as you share more.">>,
                 <<"planner", "retriever">>, posted)
        ELSE Out(FALSE, synthesizer_reply(answered), <<"planner", "retriever", "synthesizer">>,
                 posted \o Posted("synthesizer", answered.requests))

\* POST /chat/sessions/{session_id}/assistant (chat_router 201-217); the
\* retriever's environment and the synthesizer's answer are drawn where the
\* handler reaches them
request_assistant_response_endpoint(session_id, planner_answer) ==
    \E user_query \in {_latest_user_message(chat_db, session_id)} :
    \E structured \in {query_to_structured(user_query, user_settings, planner_answer)} :
    LET ready == <<"I'm ready whenever you are", "-", "what can I help you with today?">>
        Replied(text, called) ==
            Response("assistant", user_query, ReturnedText(Reply(text), 0), <<>>, called)
        Reply_(reply) ==
            /\ llm_requests' = llm_requests \o reply.posted
            /\ IF reply.raised
               THEN /\ UNCHANGED chat_db
                    /\ response' = Response("assistant", user_query,
                                       Raised(structured.exception, 0), <<>>, reply.called)
               ELSE /\ chat_db' = create_chat_message(chat_db, session_id, "assistant", reply.text)
                    /\ response' = Replied(reply.text, reply.called)
    IN  /\ UNCHANGED <<user_settings, API_KEYS_READY, API_KEY_WATCH_TASK, background_vars>>
        /\ IF session_id \notin chat_db.sessions
           THEN /\ NoRetrieve
                /\ UNCHANGED <<chat_db, llm_requests>>
                /\ response' = Response("assistant", <<>>, Raised("HTTPException", 0), <<>>, <<>>)
           ELSE IF user_query = <<>>
           THEN /\ NoRetrieve
                /\ UNCHANGED llm_requests
                /\ chat_db' = create_chat_message(chat_db, session_id, "assistant", ready)
                /\ response' = Replied(ready, <<>>)
           ELSE IF ~retriever_called(structured)
           THEN /\ NoRetrieve
                /\ Reply_(_collect_relevant_context(structured, [ok |-> FALSE, ret |-> <<>>],
                                                    Raised("", 0)))
           ELSE \E env \in WebEnvs :
                /\ Retrieve(user_query, Get(structured.plan, TableKey).text, env)
                /\ IF ~call'.ok \/ call'.ret = <<>>
                   THEN Reply_(_collect_relevant_context(structured,
                                   [ok |-> call'.ok, ret |-> call'.ret], Raised("", 0)))
                   ELSE \E synthesizer_answer \in SynthesizerAnswers :
                        Reply_(_collect_relevant_context(structured,
                                   [ok |-> call'.ok, ret |-> call'.ret],
                                   generate_user_response_from_file(
                                       {"user_query", "file_path", "conversation_history"},
                                       user_settings, synthesizer_answer)))

(***************************************************************************)
(* SpecWeb: one call of the planner, of the synthesizer, of /search or of  *)
(* the assistant endpoint, for every state of the settings file, of the    *)
(* chat store and of the Index Stores, and every answer of the LLM         *)
(* capability.                                                             *)
(***************************************************************************)
InitWebSpec ==
    /\ EMBEDDINGS_CACHE = "None"
    /\ DB_CACHE = EmptyCache
    /\ QUERY_CACHE = EmptyCache
    /\ RESULT_CACHE = EmptyCache
    /\ disk \in InitialDisks
    /\ ncalls = 0
    /\ call = CallRecord("init", <<>>, 0, <<>>, <<>>, FALSE, <<>>, NoMinScore,
                         FALSE, <<>>, <<>>, NoSearch)
    /\ user_settings \in SettingsFiles
    /\ chat_db \in ChatDbs
    /\ API_KEYS_READY \in BOOLEAN
    /\ API_KEY_WATCH_TASK = "None"
    /\ llm_requests = <<>>
    /\ response = NoResponse
    /\ InitBackground

\* query_to_structured called on its own
QueryToStructured ==
    \E user_query \in {QueryGrades}, planner_answer \in PlannerAnswers :
        /\ ncalls = 0
        /\ NoRetrieve
        /\ UNCHANGED <<user_settings, chat_db, API_KEYS_READY, API_KEY_WATCH_TASK, background_vars>>
        /\ \E structured \in {query_to_structured(user_query, user_settings, planner_answer)} :
               /\ llm_requests' = llm_requests \o Posted("planner", structured.requests)
               /\ response' = Response("query_to_structured", user_query, structured, <<>>, <<>>)

\* generate_user_response_from_file(user_query=..., file_path=...) called on
\* its own
GenerateUserResponse ==
    \E user_query \in {QueryGrades}, synthesizer_answer \in SynthesizerAnswers :
        /\ ncalls = 0
        /\ NoRetrieve
        /\ UNCHANGED <<user_settings, chat_db, API_KEYS_READY, API_KEY_WATCH_TASK, background_vars>>
        /\ \E answered \in {generate_user_response_from_file({"user_query", "file_path"},
                                  user_settings, synthesizer_answer)} :
               /\ llm_requests' = llm_requests \o Posted("synthesizer", answered.requests)
               /\ response' = Response("generate_user_response_from_file", user_query,
                                       answered, <<>>, <<>>)

SearchEndpoint ==
    \E query \in {QueryGrades}, planner_answer \in PlannerAnswers :
        /\ ncalls = 0
        /\ search(query, planner_answer)

AssistantEndpoint ==
    \E session_id \in SessionIds, planner_answer \in PlannerAnswers :
        /\ ncalls = 0
        /\ request_assistant_response_endpoint(session_id, planner_answer)

NextWeb == QueryToStructured \/ GenerateUserResponse \/ SearchEndpoint \/ AssistantEndpoint

SpecWeb == InitWebSpec /\ [][NextWeb]_vars

(***************************************************************************)
(* SpecRace: two callers inside perform_search at once.  A call is two     *)
(* steps: up to the Result Cache lookup (lines 505-542), and from the miss *)
(* to the cache write (lines 544-605); the other caller may run between    *)
(* them.  The embedding model and the stores load.                         *)
(***************************************************************************)
\* a caller past the lookup, which missed, holding its arguments and its db
Missed(query, k, out_dir_name, db) ==
    [pc |-> "missed", query |-> query, k |-> k, out_dir_name |-> out_dir_name, db |-> db]
\* a caller that has returned, and whether it computed its list
CallReturned(query, k, out_dir_name, ok, ret, computed) ==
    [pc |-> "returned", query |-> query, k |-> k, out_dir_name |-> out_dir_name,
     ok |-> ok, ret |-> ret, computed |-> computed]

\* lines 505-542: the model and the store are loaded and the Result Cache is
\* read
BeginSearch(caller) ==
    \E query \in {QueryGrades, QueryCode}, k \in 1..MaxK, out_dir_name \in OutDirs :
    \E got \in {get_cached_db(DbGrades, out_dir_name, TRUE)} :
    \E cached_results \in {get_cached_results(query, DbGrades, k, NoMinScore)} :
        /\ inflight[caller].pc = "idle"
        /\ ncalls' = ncalls + 1
        /\ EMBEDDINGS_CACHE' = "model"
        /\ DB_CACHE' = got.cache
        /\ UNCHANGED <<QUERY_CACHE, RESULT_CACHE, disk, call>>
        /\ inflight' = [inflight EXCEPT ![caller] =
               IF ~got.db.ok THEN CallReturned(query, k, out_dir_name, FALSE, <<>>, FALSE)
               ELSE IF cached_results.found
               THEN CallReturned(query, k, out_dir_name, TRUE, cached_results.results, FALSE)
               ELSE Missed(query, k, out_dir_name, got.db)]
        /\ UNCHANGED <<serving_vars, SCRAPING_TASK, SCRAPING_COMPLETED, server>>

\* lines 544-605: the list is computed from the store loaded before the
\* lookup, and written to the Result Cache
FinishSearch(caller) ==
    /\ inflight[caller].pc = "missed"
    /\ \E found \in {search_after_miss(inflight[caller].query, inflight[caller].k, DbGrades,
                                      NoMinScore, inflight[caller].db, TRUE)} :
           /\ QUERY_CACHE' = found.qcache
           /\ RESULT_CACHE' = found.rcache
           /\ call' = CallRecord("search", inflight[caller].query, inflight[caller].k,
                          CsvOf(DbGrades), inflight[caller].out_dir_name, FALSE, DbGrades,
                          NoMinScore, found.ok, found.results, found.did, found.info)
           /\ inflight' = [inflight EXCEPT ![caller] =
                  CallReturned(inflight[caller].query, inflight[caller].k,
                           inflight[caller].out_dir_name, found.ok, found.results, TRUE)]
    /\ UNCHANGED <<EMBEDDINGS_CACHE, DB_CACHE, disk, ncalls>>
    /\ UNCHANGED <<serving_vars, SCRAPING_TASK, SCRAPING_COMPLETED, server>>

NextRace == \E caller \in Callers : BeginSearch(caller) \/ FinishSearch(caller)

SpecRace == Init /\ [][NextRace]_vars

(***************************************************************************)
(* SpecWatch: the app's lifespan, the key watcher and the scraping         *)
(* pipeline (fast_api.py 52-232), with the user setting and clearing keys  *)
(* and calling /search.  The asyncio tasks run one step at a time, from    *)
(* one await to the next.  sample_data holds none of the CSV files, so the *)
(* lifespan builds no store.                                               *)
(***************************************************************************)
\* _ensure_canvas_scrape (lines 181-187): [task, server] afterwards
_ensure_canvas_scrape ==
    IF ~SCRAPING_COMPLETED /\ SCRAPING_TASK \in {"None", "done"}
    THEN [task |-> "created",
          server |-> [server EXCEPT !.pipeline_tasks = @ + 1, !.pipeline_started = TRUE]]
    ELSE [task |-> SCRAPING_TASK, server |-> server]

InitWatch ==
    /\ EMBEDDINGS_CACHE = "None"
    /\ DB_CACHE = EmptyCache
    /\ QUERY_CACHE = EmptyCache
    /\ RESULT_CACHE = EmptyCache
    /\ disk = EmptyCache
    /\ ncalls = 0
    /\ call = CallRecord("init", <<>>, 0, <<>>, <<>>, FALSE, <<>>, NoMinScore,
                         FALSE, <<>>, <<>>, NoSearch)
    /\ user_settings \in SettingsFiles
    /\ chat_db = NoChats
    /\ API_KEYS_READY = FALSE
    /\ API_KEY_WATCH_TASK = "None"
    /\ llm_requests = <<>>
    /\ response = NoResponse
    /\ InitBackground

\* what the steps of the tasks leave alone
NoRequest ==
    UNCHANGED <<EMBEDDINGS_CACHE, DB_CACHE, QUERY_CACHE, RESULT_CACHE, disk, call, ncalls,
                chat_db, llm_requests, response, inflight>>

\* lifespan up to the yield (lines 190-218): every CSV is skipped, the
\* storages are ensured and the watcher is started
Startup ==
    /\ server.lifespan = "created"
    /\ server' = [server EXCEPT !.lifespan = "serving"]
    /\ user_settings' = get_user_settings(user_settings)
    /\ API_KEY_WATCH_TASK' = _ensure_api_key_watch(API_KEY_WATCH_TASK)
    /\ UNCHANGED <<API_KEYS_READY, SCRAPING_TASK, SCRAPING_COMPLETED>>
    /\ NoRequest

\* wait_for_api_keys up to its first await (lines 64-81): with no key
\* pending it sets the event and returns
WatcherFirstCheck ==
    /\ API_KEY_WATCH_TASK = "running"
    /\ user_settings' = get_user_settings(user_settings)
    /\ IF _missing_api_keys(user_settings) = <<>>
       THEN /\ API_KEYS_READY' = TRUE
            /\ API_KEY_WATCH_TASK' = "done"
       ELSE /\ API_KEY_WATCH_TASK' = "sleeping"
            /\ UNCHANGED API_KEYS_READY
    /\ UNCHANGED <<SCRAPING_TASK, SCRAPING_COMPLETED, server>>
    /\ NoRequest

\* wait_for_api_keys from the end of a sleep (lines 81-96): it sleeps again
\* while a key is pending; then it sets the event and ensures the pipeline
WatcherWake ==
    /\ API_KEY_WATCH_TASK = "sleeping"
    /\ user_settings' = get_user_settings(user_settings)
    /\ IF _missing_api_keys(user_settings) # <<>>
       THEN UNCHANGED <<API_KEYS_READY, API_KEY_WATCH_TASK, SCRAPING_TASK, server>>
       ELSE /\ API_KEYS_READY' = TRUE
            /\ API_KEY_WATCH_TASK' = "done"
            /\ SCRAPING_TASK' = _ensure_canvas_scrape.task
            /\ server' = _ensure_canvas_scrape.server
    /\ UNCHANGED SCRAPING_COMPLETED
    /\ NoRequest

\* run_canvas_pipeline up to its first await (lines 107-154)
PipelineStart ==
    /\ SCRAPING_TASK = "created"
    /\ IF SCRAPING_COMPLETED
       THEN /\ SCRAPING_TASK' = "done"
            /\ server' = [server EXCEPT !.pipeline_tasks = @ - 1]
       ELSE /\ SCRAPING_TASK' = "running"
            /\ UNCHANGED server
    /\ UNCHANGED <<user_settings, API_KEYS_READY, API_KEY_WATCH_TASK, SCRAPING_COMPLETED>>
    /\ NoRequest

\* run_canvas_pipeline from the end of its command (lines 154-171): the
\* command succeeded or failed
PipelineFinish ==
    \E succeeded \in BOOLEAN :
        /\ SCRAPING_TASK = "running"
        /\ SCRAPING_COMPLETED' = (SCRAPING_COMPLETED \/ succeeded)
        /\ SCRAPING_TASK' = "None"
        /\ server' = [server EXCEPT !.pipeline_tasks = @ - 1]
        /\ UNCHANGED <<user_settings, API_KEYS_READY, API_KEY_WATCH_TASK>>
        /\ NoRequest

\* POST /user/canvas_key and /user/openrouter_api_key
\* (user_router.set_canvas_key, user_store.set_user_value)
SetKey ==
    \E field \in {"canvas_key", "openrouter_api_key"}, value \in {SomeKey, <<>>} :
        /\ server.lifespan = "serving"
        /\ user_settings' = SettingsFile([get_user_settings(user_settings).row
                                             EXCEPT ![field] = value])
        /\ UNCHANGED <<API_KEYS_READY, API_KEY_WATCH_TASK, SCRAPING_TASK,
                       SCRAPING_COMPLETED, server>>
        /\ NoRequest

\* GET /search, the planner's request refused
SearchWatched ==
    /\ server.lifespan = "serving"
    /\ ncalls < MaxCalls
    /\ search(QueryGrades, Answer("ok", 401, "none", NoReply))

NextWatch ==
    \/ Startup
    \/ WatcherFirstCheck
    \/ WatcherWake
    \/ PipelineStart
    \/ PipelineFinish
    \/ SetKey
    \/ SearchWatched

\* the event loop runs every task that is ready: a task that can take a
\* step takes it
SpecWatch ==
    /\ InitWatch /\ [][NextWatch]_vars
    /\ WF_vars(Startup)
    /\ WF_vars(WatcherFirstCheck)
    /\ WF_vars(WatcherWake)
    /\ WF_vars(PipelineStart)
    /\ WF_vars(PipelineFinish)

(***************************************************************************)
(* The claims.                                                             *)
(***************************************************************************)
\* the last operation was a search that returned a list (not None)
SearchReturned == call.op = "search" /\ call.ok
\* ... and the list was computed from fetched candidates, not read from the cache
SearchComputed == SearchReturned /\ call.info.searched /\ call.info.pairs # <<>>
\* the Identifier Set of the last search
CallIdentifiers == extract_identifiers(Strip(call.query))
CallKey == ResultKey(call.query, call.db_name, call.k, call.min_score)

\* C1: a search whose key is in the Result Cache when it is called returns
\* that entry, and does so before the embedding model is loaded, an Index
\* Store is loaded or an Index Store is built.
C1_CachedEntryReturnedFirst ==
    (call.op = "search" /\ call.cached_before.found) =>
        /\ call.ok
        /\ call.ret = call.cached_before.results
        /\ \A i \in 1..Len(call.did) : call.did[i] \notin {"load_model", "load_db", "build"}

\* C2: after a search that returned a list, the Result Cache holds that
\* list under the key of the call.
C2_ReturnedListIsCached ==
    SearchReturned => (CallKey \in DOMAIN RESULT_CACHE /\ RESULT_CACHE[CallKey] = call.ret)

\* q1 and q2 differ only in letter case and in leading/trailing whitespace
SameLetter(c, d) ==
    \/ c = d
    \/ \E i \in 1..26 : {c, d} \subseteq {LowerLetters[i], UpperLetters[i]}

AllSpaces(s, from, to) == \A i \in from..to : s[i] \in SpaceChars

SameUpToCaseAndMargins(q1, q2) ==
    \E a1 \in 1..(Len(q1) + 1), a2 \in 1..(Len(q2) + 1) :
    \E b1 \in (a1 - 1)..Len(q1), b2 \in (a2 - 1)..Len(q2) :
        /\ AllSpaces(q1, 1, a1 - 1) /\ AllSpaces(q1, b1 + 1, Len(q1))
        /\ AllSpaces(q2, 1, a2 - 1) /\ AllSpaces(q2, b2 + 1, Len(q2))
        /\ b1 - a1 = b2 - a2
        /\ \A i \in 0..(b1 - a1) : SameLetter(q1[a1 + i], q2[a2 + i])

\* C3: after a search has written or read a Result Cache entry, a lookup
\* with any query that differs from the call's only in letter case or in
\* leading/trailing whitespace (same database, k and min_score) finds that
\* very entry.
C3_KeyIgnoresCaseAndMargins ==
    (SearchReturned /\ (call.info.hit \/ call.info.pairs # <<>>)) =>
        \A q \in KeyQueries :
            SameUpToCaseAndMargins(q, call.query) =>
                get_cached_results(q, call.db_name, call.k, call.min_score)
                    = [found |-> TRUE, results |-> call.ret]

\* C3 witness: "grades" is served from the entry that " Grades " wrote
C3_Witness ==
    /\ SearchReturned /\ call.info.hit /\ call.query = QueryGrades
    /\ QueryGrades \in DOMAIN QUERY_CACHE
    /\ QUERY_CACHE[QueryGrades] = embed_query(Strip(QueryGradesSpaced))

\* ---- hybrid filtering and ranking, under SpecRank ----

\* text holds the identifier value as a case-insensitive substring
Holds(text, id_val) == Contains(Lower(text), Lower(id_val))

\* the Document's content holds some value of the Identifier Set
ContentHoldsIdentifier(doc, identifiers) ==
    \E j \in 1..Len(AllIdentifierValues(identifiers)) :
        Holds(doc.page_content, AllIdentifierValues(identifiers)[j])

\* ... its content or one of its metadata values does
DocHoldsIdentifier(doc, identifiers) ==
    \E j \in 1..Len(AllIdentifierValues(identifiers)) :
        LET id_val == AllIdentifierValues(identifiers)[j]
        IN  \/ Holds(doc.page_content, id_val)
            \/ Holds(doc.metadata.source, id_val)
            \/ Holds(DecStr(doc.metadata.row), id_val)

\* the Document's content holds a surface form of an extracted course code
ContentHoldsCourseCode(doc, identifiers) ==
    \E j \in 1..Len(identifiers.course_codes) :
        Holds(doc.page_content, identifiers.course_codes[j])

\* position of the Document in a list of pairs (0: not in it)
PositionIn(list, doc) ==
    IF \E i \in 1..Len(list) : list[i][1] = doc
    THEN CHOOSE i \in 1..Len(list) : list[i][1] = doc
    ELSE 0

\* C4: (no min_score, k >= 1) when the query has identifiers, none of the
\* top 3 candidates by score holds an identifier and a candidate below
\* them holds the course code as a substring of its content, no Document
\* without identifier ranks above that candidate in the result.
C4_HybridCorrection ==
    (SearchComputed /\ ~call.min_score.given /\ call.k >= 1
        /\ AnyIdentifiers(CallIdentifiers)
        /\ \A i \in 1..Min(3, Len(call.info.scored)) :
               ~ContentHoldsIdentifier(call.info.scored[i][1], CallIdentifiers))
    =>
        \A j \in 4..Len(call.info.scored) :
            ContentHoldsCourseCode(call.info.scored[j][1], CallIdentifiers) =>
                \A n \in 1..Len(call.ret) :
                    ~DocHoldsIdentifier(call.ret[n][1], CallIdentifiers) =>
                        /\ PositionIn(call.ret, call.info.scored[j][1]) > 0
                        /\ PositionIn(call.ret, call.info.scored[j][1]) < n

\* C5: strict identifier filtering is applied exactly when the Identifier
\* Set is not empty and none of the top 3 results by score holds an
\* identifier value in its content or in a metadata value.
C5_StrictIffTopThreeMiss ==
    SearchComputed =>
        (call.info.strict <=>
            /\ AnyIdentifiers(CallIdentifiers)
            /\ \A i \in 1..Min(3, Len(call.info.scored)) :
                   ~DocHoldsIdentifier(call.info.scored[i][1], CallIdentifiers))

\* C6: when strict filtering removes every result, the search returns the
\* first k of the candidates that pass min_score, in descending score
\* order; a search with candidates passing min_score and k >= 1 never
\* returns an empty list.
C6_FallbackToUnfiltered ==
    SearchComputed =>
        /\ call.info.fallback =>
               /\ Len(call.ret) = Min(call.k, Len(call.info.scored))
               /\ \A i \in 1..Len(call.ret) : call.ret[i] = call.info.scored[i]
        /\ (call.info.scored # <<>> /\ call.k >= 1) => call.ret # <<>>

\* C6 witness: the filter removed every candidate and the fallback list,
\* shortened by min_score and by k, was returned
C6_Witness ==
    /\ SearchComputed /\ call.info.fallback /\ call.ret # <<>>
    /\ call.min_score.given
    /\ Len(call.info.scored) < Len(call.info.pairs)
    /\ Len(call.ret) < Len(call.info.scored)

\* the Document holds the number of the course code but no surface form of
\* the code, in its content and metadata
HoldsOnlyTheNumber(doc, identifiers) ==
    /\ \E j \in 1..Len(identifiers.course_numbers) :
           Contains(CombinedText(doc), Lower(identifiers.course_numbers[j]))
    /\ \A j \in 1..Len(identifiers.course_codes) :
           ~Contains(CombinedText(doc), Lower(identifiers.course_codes[j]))

\* the query names one course code and nothing else
OnlyOneCourseCode(query) ==
    LET m == CourseMatchAt(Strip(query), 1)
    IN  m.to = Len(Strip(query)) /\ m.to > 0

\* C7: for a query that is one course code, a strict filter that is
\* applied (and not undone by the fallback) removes every Document that
\* holds the course number without the course code.
C7_BareNumberNotMatched ==
    (SearchComputed /\ OnlyOneCourseCode(call.query)
        /\ call.info.strict /\ ~call.info.fallback)
    =>
        \A n \in 1..Len(call.ret) : ~HoldsOnlyTheNumber(call.ret[n][1], CallIdentifiers)

\* C8: every returned score is in [0,1]; and (no min_score, no strict
\* filter, k >= 1) a fetched Document whose unit vector equals the query
\* vector is returned first, with score 1.0.
C8_ScoresAndExactMatch ==
    SearchReturned =>
        /\ \A i \in 1..Len(call.ret) : call.ret[i][2] >= 0 /\ call.ret[i][2] <= ScoreScale
        /\ (SearchComputed /\ ~call.min_score.given /\ ~call.info.strict /\ call.k >= 1) =>
               \A j \in 1..Len(call.info.pairs) :
                   call.info.pairs[j][2] = IpScale =>
                       /\ call.ret[1][2] = ScoreScale
                       /\ Dot(embed_query(Strip(call.query)), embed_query(Strip(call.query)))
                              = IpScale
                       /\ \E i \in 1..Len(call.info.pairs) :
                              /\ call.info.pairs[i][2] = IpScale
                              /\ call.info.pairs[i][1] = call.ret[1][1]

\* C9: with a min_score, every returned pair has score >= min_score.
C9_MinScoreRespected ==
    (SearchReturned /\ call.min_score.given) =>
        \A i \in 1..Len(call.ret) : call.ret[i][2] >= call.min_score.value

\* C9 witness: the fallback path, with a fetched candidate below min_score
\* and a returned one
C9_Witness ==
    /\ SearchComputed /\ call.min_score.given /\ call.info.fallback
    /\ call.ret # <<>>
    /\ \E j \in 1..Len(call.info.pairs) :
           Similarity(call.info.pairs[j][2]) < call.min_score.value

\* C10: the returned list has at most k entries, is in non-increasing
\* score order with equal scores in the order the index returned them, and
\* is the first k of the candidates left by min_score and identifier
\* filtering, none of which outscores a returned one.
C10_TopKInOrder ==
    SearchReturned =>
        /\ Len(call.ret) <= call.k
        /\ \A i, j \in 1..Len(call.ret) : i < j => call.ret[i][2] >= call.ret[j][2]
        /\ SearchComputed =>
               /\ \A i, j \in 1..Len(call.ret) :
                      (i < j /\ call.ret[i][2] = call.ret[j][2]) =>
                          PositionIn(call.info.pairs, call.ret[i][1])
                              < PositionIn(call.info.pairs, call.ret[j][1])
               /\ Len(call.ret) = Min(call.k, Len(call.info.kept))
               /\ \A i \in 1..Len(call.ret) : PositionIn(call.info.kept, call.ret[i][1]) > 0
               /\ \A i \in 1..Len(call.info.kept) :
                      PositionIn(call.ret, call.info.kept[i][1]) = 0 =>
                          \A n \in 1..Len(call.ret) : call.ret[n][2] >= call.info.kept[i][2]

\* C10 witness: two returned candidates of equal score, and a candidate
\* cut off by k
C10_Witness ==
    /\ SearchComputed /\ Len(call.ret) = 2 /\ Len(call.info.kept) > 2
    /\ call.ret[1][2] = call.ret[2][2]

\* ---- extract_identifiers and adaptive_k_fetch, under SpecIdent ----

\* the Identifier Set has been extracted from call.query
Identified == call.op \in {"extract_identifiers", "adaptive_k_fetch"}
\* ... and a fetch count computed from it
FetchCounted == call.op = "adaptive_k_fetch"

IdentifiersIn(ids) ==
    Len(ids.course_codes) + Len(ids.course_numbers) + Len(ids.assignment_patterns)
        + Len(ids.raw_numbers)

\* C11 as stated: for every k, with at least one identifier, the count
\* requested against "grades" is above k and at most k + identifier_count;
\* against "users" it is k whatever the identifiers are.
C11_AdaptiveFetchEveryK ==
    FetchCounted =>
        /\ (call.db_name = DbGrades /\ IdentifiersIn(call.ret) >= 1) =>
               /\ call.k < call.info.k_fetch
               /\ call.info.k_fetch <= call.k + IdentifiersIn(call.ret)
        /\ call.db_name = DbUsers => call.info.k_fetch = call.k

\* C11 amended: the same for every k >= 1 (for k = 0 the count is 0).
C11_AdaptiveFetch ==
    FetchCounted =>
        /\ (call.db_name = DbGrades /\ IdentifiersIn(call.ret) >= 1 /\ call.k >= 1) =>
               /\ call.k < call.info.k_fetch
               /\ call.info.k_fetch <= call.k + IdentifiersIn(call.ret)
        /\ (call.db_name = DbGrades /\ call.k = 0) => call.info.k_fetch = 0
        /\ call.db_name = DbUsers => call.info.k_fetch = call.k

\* C11 witness: against "grades" the count is k + identifier_count, below 2k
C11_Witness ==
    /\ FetchCounted /\ call.db_name = DbGrades /\ call.k >= 1
    /\ IdentifiersIn(call.ret) >= 1
    /\ call.info.k_fetch = call.k + IdentifiersIn(call.ret)
    /\ call.info.k_fetch < 2 * call.k

\* q[a..b] is not touched by a word character on the left / on the right
FreeOnLeft(q, a) == a = 1 \/ q[a - 1] \notin WordChars
FreeOnRight(q, b) == b = Len(q) \/ q[b + 1] \notin WordChars

AllIn(q, a, b, cs) == \A j \in a..b : q[j] \in cs

\* q[a..b] is whitespace with at most one mark (a hyphen, or a #) in it
IsSeparator(q, a, b, mark) ==
    /\ AllIn(q, a, b, SpaceChars \cup {mark})
    /\ Cardinality({j \in a..b : q[j] = mark}) <= 1

\* a word-delimited run q[i..i+n-1] of 4-6 letters followed, optionally
\* after a separator, by exactly the 3 digits q[p..p+2]
IsCourseCode(q, i, n, p) ==
    /\ n \in 4..6 /\ p >= i + n /\ p + 2 <= Len(q)
    /\ FreeOnLeft(q, i) /\ AllIn(q, i, i + n - 1, AlphaChars)
    /\ IsSeparator(q, i + n, p - 1, "-")
    /\ AllIn(q, p, p + 2, DigitSet) /\ FreeOnRight(q, p + 2)

\* a standalone number of 1-3 digits
IsStandaloneNumber(q, a, b) ==
    /\ a <= b /\ b <= a + 2 /\ b <= Len(q)
    /\ AllIn(q, a, b, DigitSet) /\ FreeOnLeft(q, a) /\ FreeOnRight(q, b)

\* an assignment keyword q[i..e] at the start of a word
IsKeyword(q, i, e) ==
    /\ i <= e /\ FreeOnLeft(q, i)
    /\ \E j \in 1..Len(AssignmentKeywords) : Lower(SubSeq(q, i, e)) = AssignmentKeywords[j]

\* ... followed, optionally after whitespace and a #, by the number q[p..b]
IsNumberOfKeyword(q, e, p, b) ==
    /\ e < p /\ p <= b /\ b <= Len(q)
    /\ IsSeparator(q, e + 1, p - 1, "#")
    /\ AllIn(q, p, b, DigitSet) /\ FreeOnRight(q, b)

Positions(q) == 1..Len(q)

\* the value of a digit string
RECURSIVE DigitsValue(_)
DigitsValue(ds) ==
    IF ds = <<>> THEN 0
    ELSE 10 * DigitsValue(SubSeq(ds, 1, Len(ds) - 1))
             + (CHOOSE d \in 0..9 : DigitChars[d + 1] = ds[Len(ds)])

StoplistValues == {1, 2, 3, 10, 20, 100}

\* the standalone numbers of q that the stoplist lets through, as spans,
\* the stoplist read as digit strings (by_value = FALSE) or as values
EligibleSpans(q, by_value) ==
    {sp \in Positions(q) \X Positions(q) :
        /\ IsStandaloneNumber(q, sp[1], sp[2])
        /\ IF by_value THEN DigitsValue(SubSeq(q, sp[1], sp[2])) \notin StoplistValues
           ELSE SubSeq(q, sp[1], sp[2]) \notin CommonNumbers}

\* the texts of a set of disjoint spans, from left to right
SpanTexts(q, spans) ==
    [j \in 1..Cardinality(spans) |->
        LET sp == CHOOSE x \in spans : Cardinality({y \in spans : y[1] < x[1]}) = j - 1
        IN  SubSeq(q, sp[1], sp[2])]

HasIdentifierText(q) ==
    \/ \E i, n, p \in Positions(q) : IsCourseCode(q, i, n, p)
    \/ \E i, e \in Positions(q) :
           IsKeyword(q, i, e) /\ \E p, b \in Positions(q) : IsNumberOfKeyword(q, e, p, b)
    \/ EligibleSpans(q, FALSE) # {}

\* C12: every word-delimited run of 4-6 letters followed, optionally after
\* a separator, by exactly 3 digits puts its upper-case and its capitalized
\* form into course_codes and its number into course_numbers; a query with
\* no course code, no assignment reference and no eligible number (such as
\* "grades in") yields four empty lists.
C12_CourseCodesExtracted ==
    Identified =>
        /\ \A i, n, p \in Positions(call.query) :
               IsCourseCode(call.query, i, n, p) =>
                   LET dept == SubSeq(call.query, i, i + n - 1)
                       num == SubSeq(call.query, p, p + 2)
                       upper == [j \in 1..n |-> UpperCh(dept[j])]
                       capitalized == [j \in 1..n |-> IF j = 1 THEN UpperCh(dept[j])
                                                      ELSE LowerCh(dept[j])]
                   IN  /\ \E j \in 1..Len(call.ret.course_codes) :
                              call.ret.course_codes[j] = upper \o num
                       /\ \E j \in 1..Len(call.ret.course_codes) :
                              call.ret.course_codes[j] = capitalized \o num
                       /\ \E j \in 1..Len(call.ret.course_numbers) :
                              call.ret.course_numbers[j] = num
        /\ ~HasIdentifierText(call.query) =>
               call.ret = [course_codes |-> <<>>, course_numbers |-> <<>>,
                           assignment_patterns |-> <<>>, raw_numbers |-> <<>>]

\* C12 witness: two course codes in one query, one written with a hyphen
\* and in mixed case
C12_Witness ==
    /\ Identified
    /\ Len(call.ret.course_codes) = 4
    /\ call.ret.course_codes[1] = <<"C","M","P","S","C","4","6","1">>
    /\ call.ret.course_codes[2] = <<"C","m","p","s","c","4","6","1">>
    /\ call.ret.course_numbers = << <<"4","6","1">>, <<"2","1","2">> >>

\* C13 as stated: raw_numbers is exactly the standalone 1-3 digit numbers
\* whose value is not one of 1, 2, 3, 10, 20, 100; a stoplisted number that
\* follows an assignment keyword is in assignment_patterns and not in
\* raw_numbers.
C13_RawNumbersByValue ==
    Identified =>
        /\ call.ret.raw_numbers = SpanTexts(call.query, EligibleSpans(call.query, TRUE))
        /\ \A i, e \in Positions(call.query) : IsKeyword(call.query, i, e) =>
             \A p, b \in Positions(call.query) :
               (/\ IsNumberOfKeyword(call.query, e, p, b)
                /\ DigitsValue(SubSeq(call.query, p, b)) \in StoplistValues) =>
                   /\ \E j \in 1..Len(call.ret.assignment_patterns) :
                          call.ret.assignment_patterns[j] = SubSeq(call.query, i, b)
                   /\ \A j \in 1..Len(call.ret.raw_numbers) :
                          call.ret.raw_numbers[j] # SubSeq(call.query, p, b)

\* C13 amended: the same with the stoplist read as the digit strings "1",
\* "2", "3", "10", "20", "100" (a number written "01" is recorded).
C13_RawNumbersByText ==
    Identified =>
        /\ call.ret.raw_numbers = SpanTexts(call.query, EligibleSpans(call.query, FALSE))
        /\ \A i, e \in Positions(call.query) : IsKeyword(call.query, i, e) =>
             \A p, b \in Positions(call.query) :
               (/\ IsNumberOfKeyword(call.query, e, p, b)
                /\ SubSeq(call.query, p, b) \in CommonNumbers) =>
                   /\ \E j \in 1..Len(call.ret.assignment_patterns) :
                          call.ret.assignment_patterns[j] = SubSeq(call.query, i, b)
                   /\ \A j \in 1..Len(call.ret.raw_numbers) :
                          call.ret.raw_numbers[j] # SubSeq(call.query, p, b)

\* C13 witness: "Assignment 1 100": the assignment reference is recorded
\* and neither stoplisted number is a raw number
C13_Witness ==
    /\ Identified
    /\ call.ret.assignment_patterns = << <<"A","s","s","i","g","n","m","e","n","t"," ","1">> >>
    /\ call.ret.raw_numbers = <<>>
    /\ \E a, b \in Positions(call.query) :
           /\ IsStandaloneNumber(call.query, a, b)
           /\ SubSeq(call.query, a, b) = <<"1","0","0">>

\* ---- missing stores and builds, under Spec ----

\* how many times the event is in the trace of a call
Count(did, event) == Cardinality({i \in 1..Len(did) : did[i] = event})

\* C14: a search that reaches the store lookup and finds no store under
\* its name: without recreate_if_missing it returns None and builds
\* nothing; with recreate_if_missing it builds once, then returns None if
\* the build failed and otherwise runs the index search once on the store
\* just built.
C14_MissingStoreHandledOnce ==
    [][ LET path == StorePath(call'.out_dir_name, call'.db_name)
        IN  (/\ call'.op = "search" /\ ncalls' = ncalls + 1
             /\ EMBEDDINGS_CACHE' = "model"
             /\ path \notin DOMAIN DB_CACHE /\ path \notin DOMAIN disk)
            =>
            IF ~call'.recreate_if_missing
            THEN ~call'.ok /\ disk' = disk /\ Count(call'.did, "build") = 0
            ELSE /\ Count(call'.did, "build") = 1
                 /\ Count(call'.did, "index_search") <= 1
                 /\ (path \notin DOMAIN disk' \/ disk'[path].torn) => ~call'.ok
                 /\ (path \in DOMAIN disk' /\ ~disk'[path].torn) =>
                        /\ Count(call'.did, "index_search") = 1
                        /\ call'.ok =>
                               call'.info.pairs = similarity_search_with_score(
                                   disk'[path].store, embed_query(Strip(call'.query)),
                                   call'.info.k_fetch)
      ]_vars

\* C15: a run of vectorize that fails leaves the disk as it was and
\* returns None; a run that changes the disk leaves a completely built
\* store under the database name.
C15_BuildIsAtomic ==
    [][ LET path == StorePath(call'.out_dir_name, call'.db_name)
        IN  (call'.op = "vectorize" /\ ncalls' = ncalls + 1) =>
                /\ ~call'.ok => disk' = disk
                /\ disk' # disk =>
                       /\ call'.ok
                       /\ path \in DOMAIN disk'
                       /\ disk'[path] = Saved(BuildStore(call'.csv_filename,
                                                         CsvData(call'.csv_filename).rows))
                       /\ \A other \in DOMAIN disk : other # path => disk'[other] = disk[other]
      ]_vars

(***************************************************************************)
(* The Query Planner's text handling (SpecParse).                          *)
(***************************************************************************)
FencedExample == <<Backtick,Backtick,Backtick,"j","s","o","n","\n">> \o <<"{","\"">> \o TableKey \o <<"\"",":"," ","\"","g","r","a","d","e","s","\"","}","\n">> \o Backticks

\* both functions have run on the reply
ParsedReply == call.op = "_parse_to_dict"
\* the body of the reply is a JSON object
BodyIsJsonObject == json_loads(call.body).ok /\ json_loads(call.body).value.kind = "dict"
\* the reply is its body wrapped in code fences
ReplyIsFenced == call.prefix \in OpeningFences /\ call.suffix \in ClosingFences
\* what _parse_to_dict returns when a parser succeeds
Returned(value, by) == [ok |-> TRUE, value |-> value, by |-> by]

\* a fenced JSON object parses as the bare object does, and the fenced
\* example of the specification names the table grades
FencedParsesAsBare ==
    /\ (ReplyIsFenced /\ BodyIsJsonObject) =>
           /\ call.cleaned = call.body
           /\ call.parsed = _parse_to_dict(_extract_json_text(call.body))
           /\ call.parsed = Returned(json_loads(call.body).value, "json")
    /\ call.raw_text = FencedExample =>
           call.parsed.ok /\ Get(call.parsed.value, TableKey) = StrValue(QueryGrades)

\* C17 as stated: a JSON object wrapped in Markdown code fences (with or
\* without the json tag, with whitespace around) parses to the same Plan as
\* the bare object, the fenced example yields table_to_query = "grades", and
\* of the three parsers tried in the order JSON, literal syntax,
\* quote-normalized JSON, the first that parses the text gives the result.
C17_FirstParseReturned ==
    ParsedReply =>
        /\ FencedParsesAsBare
        /\ LET json == ParseText(call.cleaned, JsonSyntax)
               literal == ParseText(call.cleaned, LiteralSyntax)
               fixed == ParseText(ReplaceQuotes(call.cleaned), JsonSyntax)
           IN  call.parsed = IF json.ok THEN Returned(json.value, "json")
                             ELSE IF literal.ok THEN Returned(literal.value, "literal")
                             ELSE IF fixed.ok THEN Returned(fixed.value, "fixed")
                             ELSE NotParsed

\* C17, amended: as above, where the literal-syntax parse counts as a
\* success only when it yields a dict or a list; any other literal (None, a
\* quoted string) is dropped and the quote-normalized parse is tried.
C17_FencedAndOrdered ==
    ParsedReply =>
        /\ FencedParsesAsBare
        /\ LET json == ParseText(call.cleaned, JsonSyntax)
               literal == ParseText(call.cleaned, LiteralSyntax)
               fixed == ParseText(ReplaceQuotes(call.cleaned), JsonSyntax)
           IN  call.parsed = IF json.ok THEN Returned(json.value, "json")
                             ELSE IF literal.ok /\ literal.value.kind \in {"dict", "list"}
                                  THEN Returned(literal.value, "literal")
                             ELSE IF fixed.ok THEN Returned(fixed.value, "fixed")
                             ELSE NotParsed

\* the fenced example of the specification has been cleaned and parsed
C17_Witness ==
    /\ ParsedReply
    /\ call.raw_text = FencedExample
    /\ ReplyIsFenced /\ BodyIsJsonObject
    /\ call.parsed.by = "json"

\* C18: for a reply that is a well-formed JSON object followed by further
\* text that itself holds braces, the text handed to the parsers is exactly
\* that first object, and the Plan is parsed from it.
C18_FirstObjectExtracted ==
    (/\ ParsedReply
     /\ BodyIsJsonObject
     /\ Find(call.prefix, "{") = 0 /\ RFind(call.prefix, "}") = 0
     /\ Find(call.suffix, "{") # 0 \/ RFind(call.suffix, "}") # 0)
    => /\ call.cleaned = call.body
       /\ call.parsed = Returned(json_loads(call.body).value, "json")

\* C16 as stated: query_to_structured never raises, returns a Plan with an
\* error field whenever the request fails (network error, authentication
\* failure, a status other than 200, an unreadable body) or every parse
\* fails, and posts at most one request.  The code does not keep this:
\* requests.post (line 219) and resp.json() (line 224) are outside any try.
CallFails(answer) == answer.post = "raise" \/ answer.status # 200 \/ answer.body = "unreadable"
ParseFails(answer) ==
    /\ ~CallFails(answer)
    /\ ~raw_reply_of(answer).raised
    /\ \/ ~raw_reply_of(answer).reply.given
       \/ ~_parse_to_dict(_extract_json_text(raw_reply_of(answer).reply.text)).ok
C16_NeverRaises ==
    response.op = "query_to_structured" =>
        /\ ~response.raised
        /\ Len(llm_requests) <= 1
        /\ \A answer \in PlannerAnswers :
               LET out == query_to_structured(response.query, user_settings, answer)
               IN  /\ out.raised = response.raised
                   /\ out.plan = response.plan
                   /\ CallFails(answer) \/ ParseFails(answer)
                   => Has(response.plan, ErrorKey)

\* C19 as stated: with a required credential missing or blank, no request is
\* sent; query_to_structured returns a Plan with an error field,
\* generate_user_response_from_file returns the configuration-error text and
\* /search returns the missing_api_keys error without calling the planner,
\* the retriever or the synthesizer.  The code does not keep this for a key
\* of whitespace only: _missing_api_keys does not strip it.
Blank(value) == Strip(value) = <<>>
CredentialBlank(fields) ==
    ~user_settings.exists \/ \E field \in fields : Blank(user_settings.row[field])
C19_MissingCredential ==
    /\ response.op = "query_to_structured" /\ CredentialBlank({"openrouter_api_key"})
           => ~response.raised /\ llm_requests = <<>> /\ Has(response.plan, ErrorKey)
    /\ response.op = "generate_user_response_from_file" /\ CredentialBlank({"openrouter_api_key"})
           => /\ ~response.raised
              /\ llm_requests = <<>>
              /\ response.text = <<"Configuration error: ">> \o NotConfigured
    /\ response.op = "search"
         /\ CredentialBlank({REQUIRED_API_KEY_FIELDS[n] : n \in 1..Len(REQUIRED_API_KEY_FIELDS)})
           => /\ ~response.raised
              /\ response.error = <<"missing_api_keys">>
              /\ response.called = <<>>
              /\ llm_requests = <<>>

\* C20: whatever the planner, the retriever and the synthesizer do, the
\* assistant endpoint called on an existing session does not raise, and its
\* reply is a non-empty text that it appends, as one message of the
\* assistant, to the messages of that session.
AssistantReplied ==
    /\ response'.op = "assistant"
    /\ response'.exception # "HTTPException"
C20_AlwaysText ==
    [][AssistantReplied =>
           /\ ~response'.raised
           /\ response'.text # <<>>
           /\ \E session_id \in chat_db.sessions :
                  chat_db' = create_chat_message(chat_db, session_id, "assistant", response'.text)]_vars
\* the planner gave a Plan, the retriever gave documents, and the synthesizer
\* raised: the apology is the message stored last
C20_Witness ==
    /\ response.op = "assistant"
    /\ response.called = <<"planner", "retriever", "synthesizer">>
    /\ response.text = <<"I found some notes but couldn't craft a response (", "TypeError", ").">>
    /\ chat_db.messages # <<>>
    /\ chat_db.messages[Len(chat_db.messages)].sender = "assistant"
    /\ chat_db.messages[Len(chat_db.messages)].message = response.text

\* how many times a call invoked the Embedding Provider
EmbedCalls(did) == Cardinality({i \in 1..Len(did) : did[i] = "embed_query"})

\* C23: a search that reaches the index search and whose normalized query
\* is already in the query-embedding cache does not invoke the Embedding
\* Provider; on a miss it invokes the provider exactly once and the vector
\* is in the cache afterwards.
C23_ProviderOnlyOnMiss ==
    [][(call'.op = "search" /\ \E i \in 1..Len(call'.did) : call'.did[i] = "index_search") =>
          IF Lower(Strip(call'.query)) \in DOMAIN QUERY_CACHE
          THEN EmbedCalls(call'.did) = 0
          ELSE /\ EmbedCalls(call'.did) = 1
               /\ Lower(Strip(call'.query)) \in DOMAIN QUERY_CACHE'
               /\ QUERY_CACHE'[Lower(Strip(call'.query))] = embed_query(Strip(call'.query))]_vars

\* C24: every value query_to_structured returns is a mapping (one that
\* carries an error field, or the parsed plan object), never a list, a
\* string, a number or null.
C24_PlannerReturnsMapping ==
    (response.op = "query_to_structured" /\ ~response.raised) => response.plan.kind = "dict"

\* C25: when the planner gave a Plan and the retriever gave Documents, the
\* assistant endpoint asks the LLM capability for the reply, and the text it
\* stores as the message of the assistant is what the synthesizer makes of
\* the answer of the capability.
C25_StoredReplyIsGenerated ==
    (response.op = "assistant" /\ response.called = <<"planner", "retriever", "synthesizer">>) =>
        /\ llm_requests = <<"planner", "synthesizer">>
        /\ \E synthesizer_answer \in SynthesizerAnswers :
               response.text = synthesizer_reply(generate_user_response_from_file(
                                   SynthesizerParameters, user_settings, synthesizer_answer))
        /\ chat_db.messages[Len(chat_db.messages)].message = response.text

\* the inner product the index search returned with a fetched Document
FetchedIp(doc) ==
    call.info.pairs[CHOOSE j \in 1..Len(call.info.pairs) : call.info.pairs[j][1] = doc][2]

\* C26: the store is an inner-product index, so the score of a fetched
\* Document is its raw inner product, without the L2 conversion; a Document
\* of higher inner product never gets a lower score or a later rank.
C26_InnerProductIsScore ==
    SearchComputed =>
        \A a \in 1..Len(call.info.scored) :
            /\ call.info.scored[a][2]
                   = FetchedIp(call.info.scored[a][1]) * (ScoreScale \div IpScale)
            /\ \A b \in 1..Len(call.info.scored) :
                   FetchedIp(call.info.scored[a][1]) > FetchedIp(call.info.scored[b][1]) =>
                       /\ call.info.scored[a][2] >= call.info.scored[b][2]
                       /\ a < b

\* what adaptive_k_fetch gives for "course_content_summary" with the query,
\* the Identifier Set and the k of the last fetch count
SummaryFetch == adaptive_k_fetch(call.query, call.ret, call.k, DbSummary)

\* C27 as stated: without identifiers the fetch count is k for every
\* database name; with the same k and the same non-empty Identifier Set the
\* count for "course_content_summary" is at least the count for every
\* other database name.
C27_SummaryFetchesMost ==
    FetchCounted =>
        /\ IdentifiersIn(call.ret) = 0 => call.info.k_fetch = call.k
        /\ IdentifiersIn(call.ret) >= 1 => SummaryFetch >= call.info.k_fetch

\* C27 amended: the count for "course_content_summary" is at least the
\* count for "grades", "courses" and "users"; every other name gets 2k,
\* which is above the count for "course_content_summary" exactly when k is
\* above twice the identifier count.
C27_SummaryAboveTables ==
    FetchCounted =>
        /\ IdentifiersIn(call.ret) = 0 => call.info.k_fetch = call.k
        /\ (IdentifiersIn(call.ret) >= 1 /\ call.db_name \in {DbGrades, DbCourses, DbUsers}) =>
               SummaryFetch >= call.info.k_fetch
        /\ (IdentifiersIn(call.ret) >= 1
                /\ call.db_name \notin {DbSummary, DbGrades, DbCourses, DbUsers}) =>
               /\ call.info.k_fetch = 2 * call.k
               /\ (call.info.k_fetch > SummaryFetch) <=> (call.k > 2 * IdentifiersIn(call.ret))

\* C27 witness: one identifier and k = 3: "grades" gets 4, below the 5 of
\* "course_content_summary"
C27_Witness ==
    /\ FetchCounted /\ call.db_name = DbGrades
    /\ IdentifiersIn(call.ret) = 1 /\ call.k = 3
    /\ call.info.k_fetch = 4
    /\ SummaryFetch = 5

\* the last operation was a search that computed a list and wrote it to the
\* Result Cache
SearchCached == call.op = "search" /\ \E i \in 1..Len(call.did) : call.did[i] = "cache_write"

\* C29: a search that returns the list another search computed and cached
\* targets the Index Store that search targeted: the same database_name
\* under the same out_dir_name.
C29_CachedListFromTargetStore ==
    [][(SearchCached /\ call'.op = "search" /\ call'.info.hit /\ CallKey' = CallKey) =>
          StorePath(call'.out_dir_name, call'.db_name)
              = StorePath(call.out_dir_name, call.db_name)]_vars

\* the tuple a search is cached under
KeyTuple(c) == <<Lower(Strip(c.query)), c.db_name, c.k, c.min_score>>

\* C28: two searches whose tuples (trimmed lower-cased query, database_name,
\* k, min_score) differ never read or write the same Result Cache entry,
\* also when the query or the database name holds the separator.
C28_KeysInjective ==
    [][(call.op = "search" /\ call'.op = "search" /\ KeyTuple(call) # KeyTuple(call')) =>
          CallKey # CallKey']_vars

\* every entry of a cache is in it afterwards, with the value it had
EntriesKept(cache, after) ==
    \A key \in DOMAIN cache : key \in DOMAIN after /\ after[key] = cache[key]

\* no step removes or replaces an entry of a cache, and a run of vectorize
\* leaves the three caches as they were
CachesOnlyGrow ==
    [][/\ EntriesKept(QUERY_CACHE, QUERY_CACHE')
       /\ EntriesKept(RESULT_CACHE, RESULT_CACHE')
       /\ EntriesKept(DB_CACHE, DB_CACHE')
       /\ call'.op = "vectorize" => UNCHANGED <<QUERY_CACHE, RESULT_CACHE, DB_CACHE>>]_vars

\* C22: a run of vectorize leaves the query-embedding cache, the Result
\* Cache and the loaded-store cache unchanged, no step removes a cache
\* entry, and the search that follows a rebuild and whose key was cached
\* before it returns the list cached before the rebuild.
C22_RebuildKeepsCachedLists ==
    [][/\ EntriesKept(QUERY_CACHE, QUERY_CACHE')
       /\ EntriesKept(RESULT_CACHE, RESULT_CACHE')
       /\ EntriesKept(DB_CACHE, DB_CACHE')
       /\ call'.op = "vectorize" => UNCHANGED <<QUERY_CACHE, RESULT_CACHE, DB_CACHE>>
       /\ (call.op = "vectorize" /\ call'.op = "search" /\ CallKey' \in DOMAIN RESULT_CACHE) =>
              /\ call'.ok
              /\ call'.ret = RESULT_CACHE[CallKey']]_vars

\* the Result Cache key of the search a caller made
CallerKey(caller) ==
    ResultKey(inflight[caller].query, DbGrades, inflight[caller].k, NoMinScore)
\* both callers missed the Result Cache and have computed and returned a list
BothComputed ==
    \A caller \in Callers :
        /\ inflight[caller].pc = "returned"
        /\ inflight[caller].computed
        /\ inflight[caller].ret # <<>>

\* C21: two searches of one Result Cache key that both missed computed equal
\* lists, and the entry left in the cache is that list.
C21_RacingWritesEqual ==
    (BothComputed /\ CallerKey("a") = CallerKey("b")) =>
        /\ inflight["a"].ret = inflight["b"].ret
        /\ RESULT_CACHE[CallerKey("a")] = inflight["a"].ret

\* every required API key is in the user store
KeysPresent == _missing_api_keys(user_settings) = <<>>

\* C30: while the server runs, once every required API key is present the
\* scraping pipeline is eventually started (unless it has been started or
\* has completed already, or a key is removed again), and no two pipeline
\* tasks are alive at once.
C30_PipelineStartedOnce ==
    /\ [](server.pipeline_tasks <= 1)
    /\ []((server.lifespan = "serving" /\ KeysPresent) =>
              <>(server.pipeline_started \/ SCRAPING_COMPLETED \/ ~KeysPresent))

====
